---- MODULE Spec2Model ----
(***************************************************************************)
(* Gesture-controlled table tennis: the Forest Pong engine (GameEngine.tsx) *)
(* and the Pong Motion canvas (GameCanvas with its App).                    *)
(*                                                                         *)
(* Lengths are fixed-point numbers: PX units make one pixel, so that the    *)
(* fractional speeds of the source (7.5, 7 * 1.05, ...) are integers here.  *)
(* Products and quotients truncate toward zero.                            *)
(*                                                                         *)
(* SpecMatch follows a match point by point, SpecEngine follows GameEngine *)
(* tick by tick and Spec both variants tick by tick and frame by frame,    *)
(* from the states after construction and from matches in progress that    *)
(* the operations of the source lead to.                                   *)
(***************************************************************************)
EXTENDS Integers, Sequences, FiniteSets, TLC

VARIABLES variant, engine, canvas, played, ticks, vision

vars == <<variant, engine, canvas, played, ticks, vision>>

----------------------------------------------------------------------------
(* Bounds of the model *)

\* units per pixel
PX == 100
\* the deuce is cut off once a side has this many points
MaxScore == 13
\* the servers of the first MaxPlayed points of a match are recorded
MaxPlayed == 5
\* units per 1.0 of the normalized camera coordinates
UNIT == 1000
\* the Play Again button is pressed at most MaxResets times
MaxResets == 1
\* ticks of the game loop explored from each starting state
MaxTicks == 11
\* ticks a ball is followed to bring it near a paddle
MaxApproach == 400
\* frames of the canvas explored from each starting state
MaxFrames == 6
\* frameless ticks before the ticks of the model start
MaxAbsent == 29
\* frames the camera delivers while detection is modelled
MaxVideo == 2
\* passes of a loop that asks for detection
MaxDetect == 4
\* intervals that can be set at the same time
MaxIntervals == 3
\* returns of the longest rally that is played before the ticks start
MaxRally == 34

----------------------------------------------------------------------------
(* Arithmetic helpers *)

Abs(v) == IF v < 0 THEN -v ELSE v

Sign(v) == IF v < 0 THEN -1 ELSE IF v > 0 THEN 1 ELSE 0

Max(a, b) == IF a >= b THEN a ELSE b

Min(a, b) == IF a <= b THEN a ELSE b

\* (v * n) / d, truncated toward zero
Scale(v, n, d) == Sign(v) * ((Abs(v) * n) \div d)

Clamp(lo, hi, v) == Max(lo, Min(hi, v))

RECURSIVE Newton(_, _)
Newton(n, r) ==
  LET q == (r + n \div r) \div 2 IN IF q >= r THEN r ELSE Newton(n, q)

\* Math.sqrt, rounded down
Sqrt(n) == IF n = 0 THEN 0 ELSE Newton(n, n)

\* Math.sqrt(Math.pow(a.x - b.x, 2) + Math.pow(a.y - b.y, 2))
Dist(a, b) == Sqrt((a.x - b.x) * (a.x - b.x) + (a.y - b.y) * (a.y - b.y))

----------------------------------------------------------------------------
(* Forest Pong: constants.ts *)

CANVAS_WIDTH == 1280 * PX
CANVAS_HEIGHT == 720 * PX
PADDLE_WIDTH == 120 * PX
PADDLE_HEIGHT == 20 * PX
BALL_RADIUS == 10 * PX
WALL_OFFSET == 20 * PX
PADDLE_SPEED_AI == (75 * PX) \div 10
WINNING_SCORE == 11
FIST_THRESHOLD == (8 * UNIT) \div 100
BEND_THRESHOLD == (6 * UNIT) \div 100

\* types.ts
PLAYER == "PLAYER"
AI == "AI"
ServeTurn == {PLAYER, AI}
INITIALIZING == "INITIALIZING"
WAITING_FOR_HAND == "WAITING_FOR_HAND"
MENU == "MENU"
SERVING == "SERVING"
PLAYING == "PLAYING"
GAME_OVER == "GAME_OVER"

\* serveInfo.countdown = null
NoCountdown == -1

----------------------------------------------------------------------------
(* Forest Pong: GameEngine.tsx, the match logic *)

\* variant: the reset ball keeps a vertical speed
resetBall_Moving(turn, randomX) ==
  [x |-> CANVAS_WIDTH \div 2,
   y |-> CANVAS_HEIGHT \div 2,
   dx |-> 0,
   dy |-> IF turn = PLAYER THEN -PX ELSE PX,
   baseSpeed |-> 7 * PX,
   launchDirY |-> IF turn = PLAYER THEN -1 ELSE 1,
   launchDx |-> randomX]

\* randomX is the value of (Math.random() * 2 - 1) * 3
resetBall(turn, randomX) ==
  [x |-> CANVAS_WIDTH \div 2,
   y |-> IF turn = PLAYER
           THEN CANVAS_HEIGHT - WALL_OFFSET - PADDLE_HEIGHT - BALL_RADIUS - 10 * PX
           ELSE WALL_OFFSET + PADDLE_HEIGHT + BALL_RADIUS + 10 * PX,
   dx |-> 0,
   dy |-> 0,
   baseSpeed |-> 7 * PX,
   launchDirY |-> IF turn = PLAYER THEN -1 ELSE 1,
   launchDx |-> randomX]

\* rnd.launchDx is resetBall's random number, rnd.err the value of
\* Math.random() - 0.5 in hundredths.  intervals holds the variable count
\* of every interval that has been set and not cleared, oldest first.
startServePhase(g, rnd) ==
  [g EXCEPT !.gameState = SERVING,
            !.serveInfo = [turn |-> g.serveTurn, countdown |-> 3],
            !.ball = resetBall(g.serveTurn, rnd.launchDx),
            !.aiErrorOffset = Scale(rnd.err, 50 * PX, 100),
            !.intervals = Append(@, 3)]

\* the sequence s without its i-th element
Without(s, i) == SubSeq(s, 1, i - 1) \o SubSeq(s, i + 1, Len(s))

\* setServeInfo(prev => ({...prev, countdown})): React drops the update of
\* a component that has been unmounted
setCountdown(g, countdown) ==
  IF g.mounted THEN [g EXCEPT !.serveInfo.countdown = countdown] ELSE g

\* variant: the interval ends the serve phase when its countdown ends
intervalCallback_Launches(g, i) ==
  LET count == g.intervals[i] - 1
  IN  IF count <= 0
        THEN setCountdown([g EXCEPT !.intervals = Without(@, i),
                                    !.gameState = PLAYING], 0)
        ELSE setCountdown([g EXCEPT !.intervals[i] = count], count)

\* the callback of the i-th interval, lines 348-355
intervalCallback(g, i) ==
  LET count == g.intervals[i] - 1
  IN  IF count <= 0
        THEN setCountdown([g EXCEPT !.intervals = Without(@, i)], 0)
        ELSE setCountdown([g EXCEPT !.intervals[i] = count], count)

\* three seconds later: every interval has counted down and cleared itself
RECURSIVE runOut(_)
runOut(g) == IF g.intervals = <<>> THEN g ELSE runOut(intervalCallback(g, 1))

\* variant: a new match keeps the serve counter of the last one
startGame_KeepsCounter(g, rnd) ==
  startServePhase([g EXCEPT !.scores = [player |-> 0, ai |-> 0],
                            !.serveTurn = PLAYER], rnd)

startGame(g, rnd) ==
  startServePhase([g EXCEPT !.scores = [player |-> 0, ai |-> 0],
                            !.servesCount = 0,
                            !.serveTurn = PLAYER], rnd)

triggerServe(g) ==
  IF g.gameState = SERVING
    THEN [g EXCEPT !.ball.dy = g.ball.baseSpeed * g.ball.launchDirY,
                   !.ball.dx = g.ball.launchDx,
                   !.gameState = PLAYING,
                   !.serveInfo.countdown = NoCountdown]
    ELSE g

Other(turn) == IF turn = PLAYER THEN AI ELSE PLAYER

\* variant: the winning score must be exceeded
HasWon_Exceed(p, a) == (p > WINNING_SCORE \/ a > WINNING_SCORE) /\ Abs(p - a) >= 2

HasWon(p, a) == (p >= WINNING_SCORE \/ a >= WINNING_SCORE) /\ Abs(p - a) >= 2

\* variant: a decided match returns to the menu
scorePoint_ToMenu(g, winner, rnd) ==
  LET newScores == IF winner = PLAYER
                     THEN [g.scores EXCEPT !.player = @ + 1]
                     ELSE [g.scores EXCEPT !.ai = @ + 1]
      p == newScores.player
      a == newScores.ai
      isDeuce == p >= 10 /\ a >= 10
      count == g.servesCount + 1
      switchServe == isDeuce \/ count >= 2
      g1 == [g EXCEPT !.scores = newScores]
  IN  IF HasWon(p, a)
        THEN [g1 EXCEPT !.gameState = MENU]
        ELSE startServePhase(
               [g1 EXCEPT !.servesCount = IF ~isDeuce /\ count >= 2 THEN 0 ELSE count,
                          !.serveTurn = IF switchServe THEN Other(g.serveTurn) ELSE @],
               rnd)

\* variant: the server changes after three serves
scorePoint_ThreeServes(g, winner, rnd) ==
  LET newScores == IF winner = PLAYER
                     THEN [g.scores EXCEPT !.player = @ + 1]
                     ELSE [g.scores EXCEPT !.ai = @ + 1]
      p == newScores.player
      a == newScores.ai
      isDeuce == p >= 10 /\ a >= 10
      count == g.servesCount + 1
      switchServe == isDeuce \/ count >= 3
      g1 == [g EXCEPT !.scores = newScores]
  IN  IF HasWon(p, a)
        THEN [g1 EXCEPT !.gameState = GAME_OVER]
        ELSE startServePhase(
               [g1 EXCEPT !.servesCount = IF ~isDeuce /\ count >= 3 THEN 0 ELSE count,
                          !.serveTurn = IF switchServe THEN Other(g.serveTurn) ELSE @],
               rnd)

\* variant: no deuce rule, two serves each throughout
scorePoint_NoDeuce(g, winner, rnd) ==
  LET newScores == IF winner = PLAYER
                     THEN [g.scores EXCEPT !.player = @ + 1]
                     ELSE [g.scores EXCEPT !.ai = @ + 1]
      count == g.servesCount + 1
      switchServe == count >= 2
      g1 == [g EXCEPT !.scores = newScores]
  IN  IF HasWon(newScores.player, newScores.ai)
        THEN [g1 EXCEPT !.gameState = GAME_OVER]
        ELSE startServePhase(
               [g1 EXCEPT !.servesCount = IF count >= 2 THEN 0 ELSE count,
                          !.serveTurn = IF switchServe THEN Other(g.serveTurn) ELSE @],
               rnd)

scorePoint(g, winner, rnd) ==
  LET newScores == IF winner = PLAYER
                     THEN [g.scores EXCEPT !.player = @ + 1]
                     ELSE [g.scores EXCEPT !.ai = @ + 1]
      p == newScores.player
      a == newScores.ai
      isDeuce == p >= 10 /\ a >= 10
      count == g.servesCount + 1
      switchServe == isDeuce \/ count >= 2
      g1 == [g EXCEPT !.scores = newScores]
  IN  IF HasWon(p, a)
        THEN [g1 EXCEPT !.gameState = GAME_OVER]
        ELSE startServePhase(
               [g1 EXCEPT !.servesCount = IF ~isDeuce /\ count >= 2 THEN 0 ELSE count,
                          !.serveTurn = IF switchServe THEN Other(g.serveTurn) ELSE @],
               rnd)

----------------------------------------------------------------------------
(* Pong Motion: GameCanvas.tsx constants, types.ts *)

GAME_WIDTH == 800 * PX
GAME_HEIGHT == 1200 * PX
GC_PADDLE_WIDTH == 120 * PX
GC_PADDLE_HEIGHT == 20 * PX
GC_BALL_RADIUS == 12 * PX
GC_WINNING_SCORE == 11

LOADING == "LOADING"
HAND_DETECTED == "HAND_DETECTED"
COUNTDOWN == "COUNTDOWN"
UNKNOWN == "UNKNOWN"
OPEN_PALM == "OPEN_PALM"
FIST == "FIST"
INDEX_BENT == "INDEX_BENT"
HandGesture == {UNKNOWN, OPEN_PALM, FIST, INDEX_BENT}

----------------------------------------------------------------------------
(* Pong Motion: GameCanvas.tsx, the match logic.  The record c holds the   *)
(* refs of GameCanvas (scores, server, servesCount, isServing, serveTimer, *)
(* physics), the state of App (gameState, handGesture, paddleX, appScores, *)
(* isPlayerTurn, resetCount, countdown), the props the scheduled animate   *)
(* closure was created with (seen) and the clock (now, in ms).             *)

gcResetBall(c, whoServes) ==
  [c EXCEPT !.physics.ball = [x |-> GAME_WIDTH \div 2,
                              y |-> IF whoServes = "player"
                                      THEN GAME_HEIGHT - 150 * PX
                                      ELSE 150 * PX,
                              dx |-> 0, dy |-> 0, speed |-> 0],
            !.isServing = TRUE,
            !.server = whoServes,
            !.isPlayerTurn = (whoServes = "player"),
            !.serveTimer = c.now]

\* the state after checkWinCondition and its result
checkWinCondition(c) ==
  IF (c.scores.player >= GC_WINNING_SCORE \/ c.scores.ai >= GC_WINNING_SCORE)
       /\ Abs(c.scores.player - c.scores.ai) >= 2
    THEN [state |-> [c EXCEPT !.gameState = GAME_OVER], won |-> TRUE]
    ELSE [state |-> c, won |-> FALSE]

handleScoring(c, winner) ==
  LET c1 == IF winner = "player"
              THEN [c EXCEPT !.scores.player = @ + 1]
              ELSE [c EXCEPT !.scores.ai = @ + 1]
      c2 == [c1 EXCEPT !.appScores = c1.scores]
      win == checkWinCondition(c2)
      isDeuce == c2.scores.player >= 10 /\ c2.scores.ai >= 10
      count == c2.servesCount + 1
      servesAllowed == IF isDeuce THEN 1 ELSE 2
      switch == count >= servesAllowed
      nextServer == IF switch
                      THEN (IF c2.server = "player" THEN "ai" ELSE "player")
                      ELSE c2.server
  IN  IF win.won
        THEN win.state
        ELSE gcResetBall([c2 EXCEPT !.servesCount = IF switch THEN 0 ELSE count],
                         nextServer)

\* dirX8 is the value of dirX * 8, where dirX = (Math.random() - 0.5) * 1.5
launchBall(c, dirX8) ==
  [c EXCEPT !.physics.ball.dx = dirX8,
            !.physics.ball.dy = (IF c.server = "player" THEN -1 ELSE 1) * 12 * PX,
            !.physics.ball.speed = 12 * PX,
            !.isServing = FALSE]

\* Math.sin and Math.cos of an angle in thousandths of a radian, in
\* thousandths, by the first terms of their series (|angle| <= 786)
Sin(a) ==
  LET a3 == (a * a * a) \div 1000000
      a5 == (a3 * a * a) \div 1000000
  IN  a - a3 \div 6 + a5 \div 120

Cos(a) ==
  LET a2 == (a * a) \div 1000
  IN  1000 - a2 \div 2 + (a2 * a2) \div 24000

\* a paddle whose left edge is at paddleX returns the ball
gcBounce(b, paddleX, dirY, y) ==
  LET hitPoint == b.x - (paddleX + GC_PADDLE_WIDTH \div 2)
      angle == Scale(hitPoint, 785, GC_PADDLE_WIDTH \div 2)
      speed == Min(b.speed + 1 * PX, 25 * PX)
  IN  [b EXCEPT !.speed = speed,
                !.dx = Scale(speed * Sign(angle), Sin(Abs(angle)), 1000),
                !.dy = dirY * ((speed * Cos(Abs(angle))) \div 1000),
                !.y = y]

gcOverPaddle(b, paddleX) == b.x > paddleX /\ b.x < paddleX + GC_PADDLE_WIDTH

\* update, 3. Ball Physics, 4. AI Movement, 5. Collision Detection
gcBallFlight(c) ==
  LET b0 == c.physics.ball
      x == b0.x + b0.dx
      y == b0.y + b0.dy
      b1 == [b0 EXCEPT !.x = x, !.y = y,
                       !.dx = IF x - GC_BALL_RADIUS < 0 \/ x + GC_BALL_RADIUS > GAME_WIDTH
                                THEN -b0.dx ELSE b0.dx]
      aiTarget == b1.x - GC_PADDLE_WIDTH \div 2
      ai1 == IF c.physics.aiPaddleX < aiTarget
               THEN c.physics.aiPaddleX + 8 * PX ELSE c.physics.aiPaddleX
      ai2 == IF ai1 > aiTarget THEN ai1 - 8 * PX ELSE ai1
      ai == Clamp(0, GAME_WIDTH - GC_PADDLE_WIDTH, ai2)
      b2 == IF /\ b1.y + GC_BALL_RADIUS > GAME_HEIGHT - GC_PADDLE_HEIGHT - 10 * PX
               /\ b1.y - GC_BALL_RADIUS < GAME_HEIGHT - 10 * PX
               /\ gcOverPaddle(b1, c.physics.paddleX)
              THEN gcBounce(b1, c.physics.paddleX, -1,
                            GAME_HEIGHT - GC_PADDLE_HEIGHT - GC_BALL_RADIUS - 10 * PX)
              ELSE b1
      b3 == IF /\ b2.y - GC_BALL_RADIUS < GC_PADDLE_HEIGHT + 10 * PX
               /\ b2.y + GC_BALL_RADIUS > 10 * PX
               /\ gcOverPaddle(b2, ai)
              THEN gcBounce(b2, ai, 1, GC_PADDLE_HEIGHT + GC_BALL_RADIUS + 10 * PX)
              ELSE b2
  IN  [c EXCEPT !.physics.ball = b3, !.physics.aiPaddleX = ai]

\* update, 3. Ball Physics and what follows it
gcBallPhysics(c) ==
  LET c1 == gcBallFlight(c)
  IN  IF c1.physics.ball.y > GAME_HEIGHT
        THEN handleScoring(c1, "ai")
        ELSE IF c1.physics.ball.y < 0 THEN handleScoring(c1, "player") ELSE c1

\* update, with the props of the closure that runs it
gcUpdate(c, dirX8) ==
  IF c.seen.gameState # PLAYING
    THEN c
    ELSE LET maxX == GAME_WIDTH - GC_PADDLE_WIDTH
             targetX == Scale(c.seen.paddleX, GAME_WIDTH, UNIT) - GC_PADDLE_WIDTH \div 2
             c1 == [c EXCEPT !.physics.paddleX =
                               @ + Scale(Clamp(0, maxX, targetX) - @, 3, 10)]
         IN  IF c1.isServing
               THEN IF c1.server = "player"
                      THEN LET c2 == [c1 EXCEPT
                                        !.physics.ball.x =
                                          c1.physics.paddleX + GC_PADDLE_WIDTH \div 2,
                                        !.physics.ball.y =
                                          GAME_HEIGHT - GC_PADDLE_HEIGHT
                                            - GC_BALL_RADIUS - 10 * PX]
                           IN  IF c.seen.gesture = INDEX_BENT
                                 THEN launchBall(c2, dirX8) ELSE c2
                      ELSE LET c2 == [c1 EXCEPT
                                        !.physics.aiPaddleX =
                                          c1.physics.ball.x - GC_PADDLE_WIDTH \div 2,
                                        !.physics.ball.y =
                                          GC_PADDLE_HEIGHT + GC_BALL_RADIUS + 10 * PX]
                           IN  IF c2.now - c2.serveTimer > 1500
                                 THEN launchBall(c2, dirX8) ELSE c2
               ELSE gcBallPhysics(c1)

\* the effect on [resetTrigger]: at mount and after every restartGame
gcResetEffect(c) ==
  LET c1 == gcResetBall([c EXCEPT !.scores = [player |-> 0, ai |-> 0],
                                  !.server = "player",
                                  !.servesCount = 0], "player")
  IN  [c1 EXCEPT !.appScores = [player |-> 0, ai |-> 0],
                 !.isPlayerTurn = TRUE]

----------------------------------------------------------------------------
(* Initial states *)

\* values of (Math.random() * 2 - 1) * 3, in [-3, 3)
LaunchDxs == {-3 * PX, PX \div 2}
\* values of Math.random() - 0.5 in hundredths, in [-50, 50)
Errs == {-50, 49}
\* values of (Math.random() - 0.5) * 1.5 * 8, in [-6, 6)
DirX8s == {-6 * PX, 5 * PX}

\* the refs and the React state of GameEngine at mount
EngineInit(randomX) ==
  [gameState |-> INITIALIZING,
   scores |-> [player |-> 0, ai |-> 0],
   serveTurn |-> PLAYER,
   servesCount |-> 0,
   handDetected |-> FALSE,
   missingHandFrames |-> 0,
   paddlePlayerX |-> CANVAS_WIDTH \div 2,
   paddleAIX |-> CANVAS_WIDTH \div 2,
   ball |-> resetBall(PLAYER, randomX),
   aiErrorOffset |-> 0,
   serveInfo |-> [turn |-> PLAYER, countdown |-> NoCountdown],
   handStatus |-> "Initializing Camera...",
   intervals |-> <<>>,
   mounted |-> TRUE,
   requestRef |-> FALSE,
   init |-> "initialize"]

\* init, lines 409-413: what the asynchronous init of the effect waits
\* for, in g.init: "initialize", "getUserMedia", "onloadeddata" once the
\* handler is set, "done" when nothing is left to happen.  React has set
\* videoRef.current to null when the component is unmounted.
afterInitialize(g) == [g EXCEPT !.init = "getUserMedia"]

afterGetUserMedia(g) ==
  [g EXCEPT !.init = IF g.mounted THEN "onloadeddata" ELSE "done"]

\* videoRef.current.onloadeddata, lines 414-418: the loop is requested
loaded(g) ==
  [g EXCEPT !.gameState = WAITING_FOR_HAND, !.requestRef = TRUE, !.init = "done"]

\* App and GameCanvas after mount: the reset effect has run once and the
\* animate effect has scheduled a frame with the first props
CanvasInit ==
  gcResetEffect(
    [gameState |-> LOADING,
     handGesture |-> UNKNOWN,
     paddleX |-> UNIT \div 2,
     appScores |-> [player |-> 0, ai |-> 0],
     isPlayerTurn |-> TRUE,
     resetCount |-> 0,
     countdown |-> 0,
     scores |-> [player |-> 0, ai |-> 0],
     server |-> "player",
     servesCount |-> 0,
     isServing |-> TRUE,
     serveTimer |-> 0,
     now |-> 0,
     physics |-> [paddleX |-> PX \div 2,
                  aiPaddleX |-> PX \div 2,
                  ball |-> [x |-> GAME_WIDTH \div 2, y |-> GAME_HEIGHT \div 2,
                            dx |-> 0, dy |-> 0, speed |-> 0]],
     seen |-> [gameState |-> LOADING, gesture |-> UNKNOWN, paddleX |-> UNIT \div 2],
     resetSeen |-> 0])

----------------------------------------------------------------------------
(* Pong Motion: App.tsx.  An effect is an action that is enabled when the  *)
(* state it reads makes it act; React runs the effects of GameCanvas       *)
(* before those of App, so App's steps wait for CanvasEffects.             *)

CanvasProps(c) ==
  [gameState |-> c.gameState, gesture |-> c.handGesture, paddleX |-> c.paddleX]

EffectsPending(c) == c.seen # CanvasProps(c) \/ c.resetSeen # c.resetCount

\* GameCanvas's effects after a render: the reset effect when resetTrigger
\* changed, and the animate effect, which cancels the scheduled frame and
\* schedules one that sees the new props
CanvasEffects ==
  /\ variant = "canvas"
  /\ EffectsPending(canvas)
  /\ LET c1 == IF canvas.resetSeen # canvas.resetCount
                 THEN gcResetEffect(canvas)
                 ELSE canvas
     IN  canvas' = [c1 EXCEPT !.seen = CanvasProps(canvas),
                              !.resetSeen = canvas.resetCount]
  /\ played' = IF canvas.resetSeen # canvas.resetCount THEN <<>> ELSE played
  /\ UNCHANGED <<variant, engine, ticks, vision>>

handleCameraReady ==
  /\ variant = "canvas"
  /\ ~EffectsPending(canvas)
  /\ canvas.gameState = LOADING
  /\ canvas' = [canvas EXCEPT !.gameState = MENU]
  /\ UNCHANGED <<variant, engine, played, ticks, vision>>

handleHandUpdate(x, gesture) ==
  /\ variant = "canvas"
  /\ ~EffectsPending(canvas)
  /\ canvas.gameState # LOADING
  /\ canvas' = [canvas EXCEPT !.paddleX = x, !.handGesture = gesture]
  /\ UNCHANGED <<variant, engine, played, ticks, vision>>

\* the effect on [handGesture, gameState]
AppGestureEffect ==
  /\ variant = "canvas"
  /\ ~EffectsPending(canvas)
  /\ \/ /\ canvas.gameState = MENU
        /\ canvas.handGesture \in {OPEN_PALM, INDEX_BENT}
        /\ canvas' = [canvas EXCEPT !.gameState = HAND_DETECTED]
     \/ /\ canvas.gameState = HAND_DETECTED
        /\ canvas.handGesture = FIST
        /\ canvas' = [canvas EXCEPT !.gameState = COUNTDOWN, !.countdown = 3]
  /\ UNCHANGED <<variant, engine, played, ticks, vision>>

\* variant: the first timer of the countdown starts the play
AppCountdownEffect_Skips ==
  /\ variant = "canvas"
  /\ ~EffectsPending(canvas)
  /\ canvas.gameState = COUNTDOWN
  /\ canvas' = [canvas EXCEPT !.gameState = PLAYING, !.countdown = 0]
  /\ UNCHANGED <<variant, engine, played, ticks, vision>>

\* the effect on [countdown, gameState]: its timer, or the start of play
AppCountdownEffect ==
  /\ variant = "canvas"
  /\ ~EffectsPending(canvas)
  /\ canvas.gameState = COUNTDOWN
  /\ \/ /\ canvas.countdown > 0
        /\ canvas' = [canvas EXCEPT !.countdown = @ - 1]
     \/ /\ canvas.countdown <= 0
        /\ canvas' = [canvas EXCEPT !.gameState = PLAYING]
  /\ UNCHANGED <<variant, engine, played, ticks, vision>>

restartGame ==
  /\ variant = "canvas"
  /\ ~EffectsPending(canvas)
  /\ canvas.gameState = GAME_OVER
  /\ canvas.resetCount < MaxResets
  /\ canvas' = [canvas EXCEPT !.appScores = [player |-> 0, ai |-> 0],
                              !.resetCount = @ + 1,
                              !.gameState = MENU]
  /\ UNCHANGED <<variant, engine, played, ticks, vision>>

----------------------------------------------------------------------------
(* Forest Pong: GameEngine.tsx, one tick.  A hand frame is the function    *)
(* from the landmark indices the engine reads to points of the normalized  *)
(* camera space; NoHand stands for null.                                   *)

NoHand == [hand |-> FALSE]

\* the video element and the VisionService of the variant: the video's
\* clock counts camera frames, picture is what the detector finds in the
\* current frame; of Pong Motion's WebcamInput: init is what its
\* asynchronous start waits for ("initialize", "getUserMedia",
\* "loadeddata" once the listener is added, "done"), mounted whether its
\* refs are attached, frameId whether a pass of processVideo is requested
VisionInit ==
  [currentTime |-> 0, lastVideoTime |-> -1, picture |-> NoHand,
   init |-> "initialize", mounted |-> TRUE, frameId |-> FALSE]

\* WebcamInput.initVision after vision.initialize(): visionRef is set and
\* startCamera asks for the camera
initVision(v) == [v EXCEPT !.init = "getUserMedia"]

\* WebcamInput.startCamera after getUserMedia: the listener is added if
\* videoRef.current is there
startCamera(v) ==
  [v EXCEPT !.init = IF v.mounted THEN "loadeddata" ELSE "done"]

\* VisionService.stop
stop(v) == [v EXCEPT !.frameId = FALSE]

\* the cleanup of WebcamInput's effect: stop, if visionRef.current is set
webcamCleanup(v) ==
  LET v1 == IF v.init # "initialize" THEN stop(v) ELSE v
  IN  [v1 EXCEPT !.mounted = FALSE]

\* variant: detection runs on every request
detect_Always(v) ==
  [vision |-> [v EXCEPT !.lastVideoTime = v.currentTime],
   ran |-> TRUE, landmarks |-> v.picture]

\* VisionService.detect and the landmarks gameLoop takes from its result
detect(v) ==
  IF v.currentTime # v.lastVideoTime
    THEN [vision |-> [v EXCEPT !.lastVideoTime = v.currentTime],
          ran |-> TRUE, landmarks |-> v.picture]
    ELSE [vision |-> v, ran |-> FALSE, landmarks |-> NoHand]

\* Pong Motion, detectGesture: a finger is curled if its tip is closer to
\* its knuckle than 0.9 of the distance from the wrist to the index knuckle
isFingerCurled(landmarks, tipIdx, mcpIdx) ==
  10 * Dist(landmarks[tipIdx], landmarks[mcpIdx])
    < 9 * Dist(landmarks[0], landmarks[5])

detectGesture(landmarks) ==
  IF /\ isFingerCurled(landmarks, 8, 5) /\ isFingerCurled(landmarks, 12, 9)
     /\ isFingerCurled(landmarks, 16, 13) /\ isFingerCurled(landmarks, 20, 17)
    THEN FIST
    ELSE IF isFingerCurled(landmarks, 8, 5) THEN INDEX_BENT ELSE OPEN_PALM

\* the arguments analyzeHand passes to onResults
analyzeHand(landmarks) ==
  [x |-> UNIT - landmarks[8].x, gesture |-> detectGesture(landmarks)]

\* Pong Motion, one pass of processVideo: the service afterwards and the
\* calls of onResults it made
processVideo(v) ==
  IF v.currentTime # v.lastVideoTime
    THEN [vision |-> [v EXCEPT !.lastVideoTime = v.currentTime],
          ran |-> TRUE,
          calls |-> IF v.picture.hand THEN <<analyzeHand(v.picture.landmarks)>>
                                      ELSE <<>>]
    ELSE [vision |-> v, ran |-> FALSE, calls |-> <<>>]

isFist(landmarks) ==
  LET wrist == landmarks[0]
  IN  Dist(landmarks[8], wrist) + Dist(landmarks[12], wrist)
        + Dist(landmarks[16], wrist) + Dist(landmarks[20], wrist)
        < 4 * FIST_THRESHOLD

isIndexBent(landmarks) == Dist(landmarks[8], landmarks[5]) < BEND_THRESHOLD

PaddleMin == PADDLE_WIDTH \div 2
PaddleMax == CANVAS_WIDTH - PADDLE_WIDTH \div 2

\* variant: the smoothed position is not clamped
updatePlayerPaddle_NoClamp(g, landmarks) ==
  LET targetX == ((UNIT - landmarks[8].x) * CANVAS_WIDTH) \div UNIT
  IN  [g EXCEPT !.paddlePlayerX = @ + Scale(targetX - @, 2, 10)]

updatePlayerPaddle(g, landmarks) ==
  LET targetX == ((UNIT - landmarks[8].x) * CANVAS_WIDTH) \div UNIT
      lerp == g.paddlePlayerX + Scale(targetX - g.paddlePlayerX, 2, 10)
  IN  [g EXCEPT !.paddlePlayerX = Clamp(PaddleMin, PaddleMax, lerp)]

\* variant: the counter of missing frames is reset on re-acquisition only
handSeen_KeepsCount(g) ==
  IF ~g.handDetected
    THEN [g EXCEPT !.missingHandFrames = 0,
                   !.handDetected = TRUE,
                   !.handStatus = "Hand Detected",
                   !.gameState = IF @ = WAITING_FOR_HAND THEN MENU ELSE @]
    ELSE g

\* update, lines 111-122: a hand frame arrives
handSeen(g) ==
  LET g1 == [g EXCEPT !.missingHandFrames = 0]
  IN  IF ~g1.handDetected
        THEN [g1 EXCEPT !.handDetected = TRUE,
                        !.handStatus = "Hand Detected",
                        !.gameState = IF @ = WAITING_FOR_HAND THEN MENU ELSE @]
        ELSE g1

\* variant: the hand is declared lost after 3 missing frames
handMissing_Hasty(g) ==
  LET g1 == [g EXCEPT !.missingHandFrames = @ + 1]
  IN  IF g1.missingHandFrames > 3 /\ g1.handDetected
        THEN [g1 EXCEPT !.handDetected = FALSE,
                        !.handStatus = "Lost Tracking - Raise Hand"]
        ELSE g1

\* variant: losing the hand sends the engine back to WAITING_FOR_HAND
handMissing_ToWaiting(g) ==
  LET g1 == [g EXCEPT !.missingHandFrames = @ + 1]
  IN  IF g1.missingHandFrames > 30 /\ g1.handDetected
        THEN [g1 EXCEPT !.handDetected = FALSE,
                        !.handStatus = "Lost Tracking - Raise Hand",
                        !.gameState = WAITING_FOR_HAND]
        ELSE g1

\* update, lines 130-140: no hand frame
handMissing(g) ==
  LET g1 == [g EXCEPT !.missingHandFrames = @ + 1]
  IN  IF g1.missingHandFrames > 30 /\ g1.handDetected
        THEN [g1 EXCEPT !.handDetected = FALSE,
                        !.handStatus = "Lost Tracking - Raise Hand"]
        ELSE g1

\* variant: any hand starts the match
processInput_AnyHand(g, lm, rnd) ==
  IF lm.hand
    THEN LET g1 == updatePlayerPaddle(handSeen(g), lm.landmarks)
         IN  IF g1.gameState \in {MENU, GAME_OVER}
               THEN startGame(g1, rnd)
               ELSE IF g1.gameState = SERVING /\ g1.serveTurn = PLAYER
                      THEN (IF isIndexBent(lm.landmarks) THEN triggerServe(g1) ELSE g1)
                      ELSE g1
    ELSE handMissing(g)

\* update, 1. Process Input
processInput(g, lm, rnd) ==
  IF lm.hand
    THEN LET g1 == updatePlayerPaddle(handSeen(g), lm.landmarks)
         IN  IF g1.gameState \in {MENU, GAME_OVER}
               THEN (IF isFist(lm.landmarks) THEN startGame(g1, rnd) ELSE g1)
               ELSE IF g1.gameState = SERVING /\ g1.serveTurn = PLAYER
                      THEN (IF isIndexBent(lm.landmarks) THEN triggerServe(g1) ELSE g1)
                      ELSE g1
    ELSE handMissing(g)

\* variant: the opponent's paddle follows the ball in every phase
aiLogic_Always(g) ==
  LET diff == g.ball.x + g.aiErrorOffset - g.paddleAIX
      moved == g.paddleAIX + Clamp(-PADDLE_SPEED_AI, PADDLE_SPEED_AI, diff)
  IN  [g EXCEPT !.paddleAIX = Clamp(PaddleMin, PaddleMax, moved)]

\* update, 2. AI Logic
aiLogic(g) ==
  IF g.gameState \in {PLAYING, SERVING}
    THEN LET targetX == IF g.ball.dy > 0 /\ g.gameState = PLAYING
                          THEN CANVAS_WIDTH \div 2
                          ELSE g.ball.x + g.aiErrorOffset
             diff == targetX - g.paddleAIX
             moved == IF Abs(diff) > PADDLE_SPEED_AI
                        THEN g.paddleAIX + (IF diff > 0 THEN PADDLE_SPEED_AI
                                                        ELSE -PADDLE_SPEED_AI)
                        ELSE targetX
         IN  [g EXCEPT !.paddleAIX = Clamp(PaddleMin, PaddleMax, moved)]
    ELSE g

\* the ball after position += velocity and the side walls
ballMove(b) ==
  LET x == b.x + b.dx
      y == b.y + b.dy
  IN  [b EXCEPT !.x = x, !.y = y,
                !.dx = IF x - BALL_RADIUS < 0 \/ x + BALL_RADIUS > CANVAS_WIDTH
                         THEN -b.dx ELSE b.dx]

hitsAI(b, paddleAIX) ==
  /\ b.dy < 0
  /\ b.y - BALL_RADIUS < WALL_OFFSET + PADDLE_HEIGHT
  /\ b.y - BALL_RADIUS > WALL_OFFSET - 5 * PX
  /\ Abs(b.x - paddleAIX) < PADDLE_WIDTH \div 2 + BALL_RADIUS

hitsPlayer(b, paddlePlayerX) ==
  /\ b.dy > 0
  /\ b.y + BALL_RADIUS > CANVAS_HEIGHT - WALL_OFFSET - PADDLE_HEIGHT
  /\ b.y + BALL_RADIUS < CANVAS_HEIGHT - WALL_OFFSET + 5 * PX
  /\ Abs(b.x - paddlePlayerX) < PADDLE_WIDTH \div 2 + BALL_RADIUS

\* variant: a hit turns the ball round where it is
bounce_Stuck(b, paddleX, y) ==
  [b EXCEPT !.dy = -Scale(b.dy, 105, 100),
            !.dx = Scale(b.x - paddleX, 10 * PX, PADDLE_WIDTH \div 2)]

\* b.dy = -b.dy * 1.05; b.dx = impact * 10; unstuck
bounce(b, paddleX, y) ==
  [b EXCEPT !.dy = -Scale(b.dy, 105, 100),
            !.dx = Scale(b.x - paddleX, 10 * PX, PADDLE_WIDTH \div 2),
            !.y = y]

\* variant: the error of the opponent is drawn again at every paddle hit
ballFlight_AnyHit(g, rnd) ==
  LET b1 == ballMove(g.ball)
      hitAI == hitsAI(b1, g.paddleAIX)
      b2 == IF hitAI
              THEN bounce(b1, g.paddleAIX,
                          WALL_OFFSET + PADDLE_HEIGHT + BALL_RADIUS + 1 * PX)
              ELSE b1
      hit == hitsPlayer(b2, g.paddlePlayerX)
      b3 == IF hit
              THEN bounce(b2, g.paddlePlayerX,
                          CANVAS_HEIGHT - WALL_OFFSET - PADDLE_HEIGHT
                            - BALL_RADIUS - 1 * PX)
              ELSE b2
  IN  [g EXCEPT !.ball = b3,
                !.aiErrorOffset = IF hit \/ hitAI THEN Scale(rnd.err, 80 * PX, 100)
                                  ELSE @]

\* update, 3. Ball Physics in PLAYING, up to the scoring: the ball moves
\* and the paddles return it
ballFlight(g, rnd) ==
  LET b1 == ballMove(g.ball)
      b2 == IF hitsAI(b1, g.paddleAIX)
              THEN bounce(b1, g.paddleAIX,
                          WALL_OFFSET + PADDLE_HEIGHT + BALL_RADIUS + 1 * PX)
              ELSE b1
      hit == hitsPlayer(b2, g.paddlePlayerX)
      b3 == IF hit
              THEN bounce(b2, g.paddlePlayerX,
                          CANVAS_HEIGHT - WALL_OFFSET - PADDLE_HEIGHT
                            - BALL_RADIUS - 1 * PX)
              ELSE b2
  IN  [g EXCEPT !.ball = b3,
                !.aiErrorOffset = IF hit THEN Scale(rnd.err, 80 * PX, 100)
                                  ELSE @]

\* variant: the point goes to the side whose end the ball has left
scoring_Swapped(g1, rnd) ==
  IF g1.ball.y < 0
    THEN scorePoint(g1, AI, rnd)
    ELSE IF g1.ball.y > CANVAS_HEIGHT
           THEN scorePoint(g1, PLAYER, rnd)
           ELSE g1

\* variant: a ball beyond an end is counted twice
scoring_Twice(g1, rnd) ==
  IF g1.ball.y < 0
    THEN scorePoint(scorePoint(g1, PLAYER, rnd), PLAYER, rnd)
    ELSE IF g1.ball.y > CANVAS_HEIGHT
           THEN scorePoint(scorePoint(g1, AI, rnd), AI, rnd)
           ELSE g1

\* update, lines 201-206: Scoring
scoring(g1, rnd) ==
  IF g1.ball.y < 0
    THEN scorePoint(g1, PLAYER, rnd)
    ELSE IF g1.ball.y > CANVAS_HEIGHT
           THEN scorePoint(g1, AI, rnd)
           ELSE g1

\* update, 3. Ball Physics
ballPhysics(g, rnd) ==
  IF g.gameState = PLAYING
    THEN scoring(ballFlight(g, rnd), rnd)
    ELSE IF g.gameState = SERVING
           THEN IF g.serveTurn = PLAYER
                  THEN [g EXCEPT !.ball.x = g.paddlePlayerX,
                                 !.ball.y = CANVAS_HEIGHT - WALL_OFFSET - PADDLE_HEIGHT
                                              - BALL_RADIUS - 5 * PX]
                  ELSE LET g1 == [g EXCEPT !.ball.x = g.paddleAIX,
                                           !.ball.y = WALL_OFFSET + PADDLE_HEIGHT
                                                        + BALL_RADIUS + 5 * PX]
                       IN  IF rnd.aiServe THEN triggerServe(g1) ELSE g1
           ELSE g

update(g, lm, rnd) == ballPhysics(aiLogic(processInput(g, lm, rnd)), rnd)

----------------------------------------------------------------------------
(* Forest Pong: the steps of the match, one per operation of GameEngine    *)

Rnds == [launchDx : LaunchDxs, err : Errs]

\* visionService.initialize() has resolved
initialized ==
  /\ variant = "engine"
  /\ engine.init = "initialize"
  /\ engine' = afterInitialize(engine)
  /\ UNCHANGED <<variant, canvas, played, ticks, vision>>

\* getUserMedia has resolved
gotUserMedia ==
  /\ variant = "engine"
  /\ engine.init = "getUserMedia"
  /\ engine' = afterGetUserMedia(engine)
  /\ UNCHANGED <<variant, canvas, played, ticks, vision>>

onloadeddata ==
  /\ variant = "engine"
  /\ engine.init = "onloadeddata"
  /\ engine' = loaded(engine)
  /\ UNCHANGED <<variant, canvas, played, ticks, vision>>

MatchHand ==
  /\ variant = "engine"
  /\ engine.gameState = WAITING_FOR_HAND
  /\ engine' = handSeen(engine)
  /\ UNCHANGED <<variant, canvas, played, ticks, vision>>

\* a fist in MENU or GAME_OVER
MatchStartGame ==
  /\ variant = "engine"
  /\ engine.gameState \in {MENU, GAME_OVER}
  /\ \E rnd \in Rnds : engine' = startGame(engine, rnd)
  /\ played' = <<>>
  /\ UNCHANGED <<variant, canvas, ticks, vision>>

\* the player's bent index finger, or the opponent's random launch, when
\* the countdown has run out
MatchServe ==
  /\ variant = "engine"
  /\ engine.gameState = SERVING
  /\ engine' = triggerServe(runOut(engine))
  /\ UNCHANGED <<variant, canvas, played, ticks, vision>>

\* played: who served each of the first MaxPlayed points of the match
Record(server) ==
  IF Len(played) < MaxPlayed THEN Append(played, server) ELSE played

\* the ball leaves the field in active play
MatchPoint(winner) ==
  /\ variant = "engine"
  /\ engine.gameState = PLAYING
  /\ engine.scores.player < MaxScore /\ engine.scores.ai < MaxScore
  /\ \E rnd \in Rnds : engine' = scorePoint(engine, winner, rnd)
  /\ played' = Record(engine.serveTurn)
  /\ UNCHANGED <<variant, canvas, ticks, vision>>

(* Pong Motion: the steps of the match.  A frame runs with the props its   *)
(* closure has seen.  After the winning point the ball is not reset, so a  *)
(* frame whose closure still sees PLAYING finds the ball beyond the same   *)
(* edge and scores for the same side again.                                *)

GcLeader(c) == IF c.scores.player > c.scores.ai THEN "player" ELSE "ai"

MatchCanvasLaunch ==
  /\ variant = "canvas"
  /\ canvas.seen.gameState = PLAYING
  /\ canvas.isServing
  /\ canvas.server = "player" => canvas.seen.gesture = INDEX_BENT
  /\ \E d \in DirX8s : canvas' = launchBall(canvas, d)
  /\ UNCHANGED <<variant, engine, played, ticks, vision>>

MatchCanvasPoint(winner) ==
  /\ variant = "canvas"
  /\ canvas.seen.gameState = PLAYING
  /\ ~canvas.isServing
  /\ canvas.gameState = GAME_OVER => winner = GcLeader(canvas)
  /\ canvas.scores.player < MaxScore /\ canvas.scores.ai < MaxScore
  /\ canvas' = handleScoring(canvas, winner)
  /\ played' = Record(canvas.server)
  /\ UNCHANGED <<variant, engine, ticks, vision>>

MatchGestures == {OPEN_PALM, FIST, INDEX_BENT}

InitMatch ==
  /\ variant \in {"engine", "canvas"}
  /\ \E randomX \in LaunchDxs : engine = EngineInit(randomX)
  /\ canvas = CanvasInit
  /\ played = <<>>
  /\ ticks = 0
  /\ vision = VisionInit

NextMatch ==
  \/ initialized
  \/ gotUserMedia
  \/ onloadeddata
  \/ MatchHand
  \/ MatchStartGame
  \/ MatchServe
  \/ \E w \in ServeTurn : MatchPoint(w)
  \/ handleCameraReady
  \/ \E g \in MatchGestures : handleHandUpdate(UNIT \div 2, g)
  \/ AppGestureEffect
  \/ AppCountdownEffect
  \/ restartGame
  \/ CanvasEffects
  \/ MatchCanvasLaunch
  \/ \E w \in {"player", "ai"} : MatchCanvasPoint(w)

SpecMatch == InitMatch /\ [][NextMatch]_vars

(* Pong Motion from the mount of App to the end of its matches.  A timer   *)
(* that has been set fires after its second whatever App renders in        *)
(* between, since the effect that would clear it depends on countdown and  *)
(* gameState alone; React runs the effects of a render.                    *)
InitApp ==
  /\ variant = "canvas"
  /\ engine = EngineInit(0)
  /\ canvas = CanvasInit
  /\ played = <<>>
  /\ ticks = 0
  /\ vision = VisionInit

NextApp ==
  \/ handleCameraReady
  \/ \E g \in MatchGestures : handleHandUpdate(UNIT \div 2, g)
  \/ AppGestureEffect
  \/ AppCountdownEffect
  \/ restartGame
  \/ CanvasEffects
  \/ MatchCanvasLaunch
  \/ \E w \in {"player", "ai"} : MatchCanvasPoint(w)

SpecApp ==
  InitApp /\ [][NextApp]_vars /\ SF_vars(AppCountdownEffect) /\ WF_vars(CanvasEffects)

----------------------------------------------------------------------------
(* Claims about the states of App, checked under SpecApp *)

InCountdown(k) ==
  variant = "canvas" /\ canvas.gameState = COUNTDOWN /\ canvas.countdown = k

\* a step of App as the claim allows it
CountdownStep ==
  /\ (canvas'.gameState = HAND_DETECTED /\ canvas.gameState # HAND_DETECTED) =>
       canvas.gameState = MENU /\ canvas.handGesture \in {OPEN_PALM, INDEX_BENT}
  /\ (canvas'.gameState = COUNTDOWN /\ canvas.gameState # COUNTDOWN) =>
       /\ canvas.gameState = HAND_DETECTED
       /\ canvas.handGesture = FIST
       /\ canvas'.countdown = 3
  /\ canvas.gameState = COUNTDOWN =>
       /\ canvas.countdown \in 0 .. 3
       /\ \/ canvas'.gameState = COUNTDOWN /\ canvas'.countdown = canvas.countdown
          \/ /\ canvas.countdown > 0
             /\ canvas'.gameState = COUNTDOWN
             /\ canvas'.countdown = canvas.countdown - 1
             /\ canvas'.handGesture = canvas.handGesture
          \/ /\ canvas.countdown = 0
             /\ canvas'.gameState = PLAYING
             /\ canvas'.countdown = 0
             /\ canvas'.handGesture = canvas.handGesture
  /\ (canvas'.gameState = PLAYING /\ canvas.gameState # PLAYING) =>
       canvas.gameState = COUNTDOWN /\ canvas.countdown = 0

\* C36: App enters HAND_DETECTED only from MENU with an open palm or a bent
\* index, and COUNTDOWN only from HAND_DETECTED with a fist, at 3; in
\* COUNTDOWN a step leaves state and countdown alone, as every change of the
\* gesture does, or is a timer that takes 1 off a positive countdown, or
\* starts the play at 0; and the countdown goes on from 3 to 2, 1 and 0 and
\* then to PLAYING
C36_CountdownRuns ==
  /\ [][variant = "canvas" => CountdownStep]_vars
  /\ InCountdown(3) ~> InCountdown(2)
  /\ InCountdown(2) ~> InCountdown(1)
  /\ InCountdown(1) ~> InCountdown(0)
  /\ InCountdown(0) ~> (variant = "canvas" /\ canvas.gameState = PLAYING)

\* the second match is being played after its countdown, the hand open
C36_Witness ==
  /\ variant = "canvas"
  /\ canvas.gameState = PLAYING
  /\ canvas.countdown = 0
  /\ canvas.resetCount = MaxResets
  /\ canvas.handGesture = OPEN_PALM
  /\ ~canvas.isServing

----------------------------------------------------------------------------
(* Forest Pong, tick by tick.  The hand is held upright: every landmark    *)
(* has the x of the index tip, the wrist lies at 0.8 of the image height.  *)

OPEN == "OPEN"
CLENCHED == "CLENCHED"
BENT == "BENT"
Poses == {OPEN, CLENCHED, BENT}

Pt(x, yPercent) == [x |-> x, y |-> (yPercent * UNIT) \div 100]

\* the landmarks the two variants read: wrist 0, knuckles 5 9 13 17,
\* tips 8 12 16 20
Hand(tipX, pose) ==
  LET tip == IF pose = CLENCHED THEN 75 ELSE 40
      index == IF pose = BENT THEN 56 ELSE tip
      knuckle == IF pose = CLENCHED THEN 70 ELSE 60
  IN  [hand |-> TRUE,
       landmarks |-> (0 :> Pt(tipX, 80) @@ 5 :> Pt(tipX, knuckle)
                      @@ 8 :> Pt(tipX, index) @@ 12 :> Pt(tipX, tip)
                      @@ 16 :> Pt(tipX, tip) @@ 20 :> Pt(tipX, tip)
                      @@ 9 :> Pt(tipX, knuckle) @@ 13 :> Pt(tipX, knuckle)
                      @@ 17 :> Pt(tipX, knuckle))]

\* index tips far outside the image on either side: one tick takes the
\* paddle to the wall
TipXs == {-4 * UNIT, 5 * UNIT}

\* index tips in the image, on its edges and outside it
WideXs == {-4 * UNIT, -UNIT \div 4, 0, UNIT \div 3, UNIT, (5 * UNIT) \div 4, 5 * UNIT}

Frames == {NoHand} \cup {Hand(x, pose) : x \in TipXs, pose \in Poses}

\* the hand at rest in the middle of the image
Steady == Hand(UNIT \div 2, OPEN)

\* the random numbers of one tick: a tick draws at most one error, and
\* aiServe is the outcome of Math.random() < 0.02
TickRnds == [launchDx : LaunchDxs, err : Errs, aiServe : BOOLEAN]

\* the engine after the video has loaded, the first hand frame and a fist
Started(rnd) ==
  processInput(loaded(EngineInit(rnd.launchDx)),
               Hand(UNIT \div 2, CLENCHED), rnd)

\* the engine after the points of the sequence winners have been played,
\* as far as the match lasts
RECURSIVE PointsWon(_, _, _)
PointsWon(g, winners, rnd) ==
  IF winners = <<>> \/ g.gameState = GAME_OVER
    THEN g
    ELSE PointsWon(scorePoint(triggerServe(runOut(g)), Head(winners), rnd),
                   Tail(winners), rnd)

Wins(n, winner) == [i \in 1..n |-> winner]

\* the ball has come close to the paddle it flies to
Near(g) ==
  \/ g.ball.dy > 0 /\ g.ball.y > CANVAS_HEIGHT - 60 * PX
  \/ g.ball.dy < 0 /\ g.ball.y < 60 * PX

\* ticks with a steady hand: the serve is launched, the ball flies until it
\* is near a paddle
RECURSIVE Approach(_, _, _)
Approach(g, rnd, fuel) ==
  IF fuel = 0 \/ (g.gameState = PLAYING /\ Near(g))
    THEN g
    ELSE Approach(update(g, IF g.gameState = SERVING
                              THEN Hand(UNIT \div 2, BENT) ELSE Steady, rnd),
                  rnd, fuel - 1)

\* scores from which the ticks of the model start
Scorelines ==
  { <<>>,
    Wins(1, AI) \o Wins(1, PLAYER),
    Wins(9, PLAYER) \o Wins(10, AI),
    Wins(10, PLAYER) \o Wins(9, AI),
    Wins(10, PLAYER) \o Wins(10, AI) }

\* the random numbers drawn on the way there
SeedRnds == {r \in TickRnds : r.aiServe /\ (r.err < 0 <=> r.launchDx < 0)}

\* the engine in MENU: the video has loaded and an open hand was seen
InMenu ==
  processInput(loaded(EngineInit(0)), Steady,
               CHOOSE rnd \in SeedRnds : TRUE)

\* n ticks without a hand frame, as long as the hand counts as detected
RECURSIVE Absent(_, _, _)
Absent(g, rnd, n) ==
  IF n = 0 \/ ~g.handDetected
    THEN g
    ELSE Absent(update(g, NoHand, rnd), rnd, n - 1)

\* the hand has left the image for MaxAbsent ticks: in MENU, while the
\* player prepares the first serve, and after that serve was launched
AbsentSeeds ==
  {Absent(InMenu, rnd, MaxAbsent) : rnd \in SeedRnds}
    \cup {Absent(Started(rnd), rnd, MaxAbsent) : rnd \in SeedRnds}
    \cup {Absent(update(Started(rnd), Hand(UNIT \div 2, BENT), rnd), rnd, MaxAbsent) :
            rnd \in SeedRnds}

\* ticks with the open hand held at x until the ball is near a paddle
RECURSIVE ApproachAt(_, _, _, _)
ApproachAt(g, x, rnd, fuel) ==
  IF fuel = 0 \/ g.gameState # PLAYING \/ Near(g)
    THEN g
    ELSE ApproachAt(update(g, Hand(x, OPEN), rnd), x, rnd, fuel - 1)

\* ticks with the open hand held at x until the ball has left the paddle
RECURSIVE LeaveAt(_, _, _, _)
LeaveAt(g, x, rnd, fuel) ==
  IF fuel = 0 \/ g.gameState # PLAYING \/ ~Near(g)
    THEN g
    ELSE LeaveAt(update(g, Hand(x, OPEN), rnd), x, rnd, fuel - 1)

\* where the hand is held during the rally
RallyX == (68 * UNIT) \div 100

\* a rally of the first point: the player serves with the hand at RallyX,
\* the opponent returns, the player returns off the side of the paddle and
\* the ball is near the opponent's end again
RallySeeds ==
  {ApproachAt(
     LeaveAt(
       ApproachAt(
         LeaveAt(
           ApproachAt(update(runOut(Started(rnd)), Hand(RallyX, BENT), rnd),
                      RallyX, rnd, MaxApproach),
           RallyX, rnd, MaxApproach),
         RallyX, rnd, MaxApproach),
       RallyX, rnd, MaxApproach),
     RallyX, rnd, MaxApproach) : rnd \in SeedRnds}

\* ticks of a pending serve with the open hand held at x, until the
\* opponent's paddle has reached the left end of its way
RECURSIVE HoldAt(_, _, _, _)
HoldAt(g, x, rnd, fuel) ==
  IF fuel = 0 \/ g.gameState # SERVING \/ g.paddleAIX = PaddleMin
    THEN g
    ELSE HoldAt(update(g, Hand(x, OPEN), rnd), x, rnd, fuel - 1)

\* a serve along the left wall: resetBall has drawn a launch 0.57 pixels
\* per tick to the left, the error of the opponent's aim is negative and
\* the launch waits
WallRnd == [launchDx |-> -57, err |-> -50, aiServe |-> FALSE]

\* the opponent serves the third point from the left end, where its
\* error has taken its paddle during the wait, the player holds the
\* paddle at the left end, and the ball is near the player's paddle
WallSeeds ==
  LET x == 5 * UNIT
      pending == HoldAt(runOut(PointsWon(Started(WallRnd),
                                         Wins(1, AI) \o Wins(1, PLAYER), WallRnd)),
                        x, WallRnd, MaxApproach)
      launched == update(pending, Hand(x, OPEN), [WallRnd EXCEPT !.aiServe = TRUE])
  IN  {ApproachAt(launched, x, WallRnd, MaxApproach)}

\* the open hand of a player who keeps the rally going: it is held, inside
\* the image, where the paddle that follows it sends the ball back toward
\* the middle of the field
Aim(g) ==
  LET b == g.ball
      want == Clamp(-10 * PX, 10 * PX,
                    Scale(CANVAS_WIDTH \div 2 - b.x, Abs(b.dy), 620 * PX))
      px == Clamp(0, CANVAS_WIDTH, b.x + 4 * b.dx - 6 * want)
  IN  Hand(UNIT - (px * UNIT) \div CANVAS_WIDTH, OPEN)

\* ticks with the aiming hand until a paddle has returned the ball
RECURSIVE ReturnOf(_, _, _, _)
ReturnOf(g, up, rnd, fuel) ==
  IF fuel = 0 \/ g.gameState # PLAYING \/ (g.ball.dy < 0) # up
    THEN g
    ELSE ReturnOf(update(g, Aim(g), rnd), up, rnd, fuel - 1)

\* a rally in which the ball is returned hits times
RECURSIVE Rally(_, _, _)
Rally(g, rnd, hits) ==
  IF hits = 0 \/ g.gameState # PLAYING
    THEN g
    ELSE Rally(ReturnOf(g, g.ball.dy < 0, rnd, MaxApproach), rnd, hits - 1)

\* ticks with the aiming hand until the ball is near a paddle
RECURSIVE AimNear(_, _, _)
AimNear(g, rnd, fuel) ==
  IF fuel = 0 \/ g.gameState # PLAYING \/ Near(g)
    THEN g
    ELSE AimNear(update(g, Aim(g), rnd), rnd, fuel - 1)

\* the first point of a match after a rally of MaxRally returns, the ball
\* near the paddle it flies to
LongRallySeeds ==
  {AimNear(Rally(update(runOut(Started(rnd)), Hand(UNIT \div 2, BENT), rnd),
                 rnd, hits),
           rnd, MaxApproach) :
     rnd \in SeedRnds, hits \in {MaxRally}}

\* progress with the ball near a paddle, rallies, the hand out of the
\* image, and a ball that comes down along the left wall
EngineSeeds ==
  {EngineInit(randomX) : randomX \in LaunchDxs}
    \cup {Approach(runOut(PointsWon(Started(rnd), w, rnd)), rnd, MaxApproach) :
            w \in Scorelines, rnd \in SeedRnds}
    \cup AbsentSeeds
    \cup RallySeeds
    \cup WallSeeds

\* Pong Motion, frame by frame
GcSide(turn) == IF turn = PLAYER THEN "player" ELSE "ai"

\* App in PLAYING after the countdown, the index finger bent for the serve
GcPlaying ==
  LET c == [CanvasInit EXCEPT !.gameState = PLAYING, !.handGesture = INDEX_BENT]
  IN  [c EXCEPT !.seen = CanvasProps(c)]

RECURSIVE gcPointsWon(_, _, _)
gcPointsWon(c, winners, dirX8) ==
  IF winners = <<>> \/ c.gameState = GAME_OVER
    THEN c
    ELSE gcPointsWon(handleScoring(launchBall(c, dirX8), GcSide(Head(winners))),
                     Tail(winners), dirX8)

gcNear(c) ==
  /\ ~c.isServing
  /\ \/ c.physics.ball.dy > 0 /\ c.physics.ball.y > GAME_HEIGHT - 60 * PX
     \/ c.physics.ball.dy < 0 /\ c.physics.ball.y < 60 * PX

\* frames until the ball is near a paddle: 16 ms apart in flight, the
\* serve after 1.6 s
RECURSIVE gcApproach(_, _, _)
gcApproach(c, dirX8, fuel) ==
  IF fuel = 0 \/ c.gameState # PLAYING \/ gcNear(c)
    THEN c
    ELSE gcApproach(gcUpdate([c EXCEPT !.now = @ + (IF c.isServing THEN 1600 ELSE 16)],
                             dirX8),
                    dirX8, fuel - 1)

CanvasSeeds ==
  {CanvasInit}
    \cup {gcApproach(gcPointsWon(GcPlaying, w, d), d, MaxApproach) :
            w \in Scorelines, d \in DirX8s}

\* milliseconds between two frames: the display's rate, or a stall, which
\* is considered where update reads the clock
FrameMs == {16, 1600}

ReadsClock(c) == c.seen.gameState = PLAYING /\ c.isServing /\ c.server = "ai"

\* what App receives from the camera: the hand in the middle of the image
\* in each gesture, or open far outside the image
HandUpdates ==
  {<<UNIT \div 2, g>> : g \in MatchGestures} \cup {<<-4 * UNIT, OPEN_PALM>>}

animate(dt, dirX8) ==
  /\ variant = "canvas"
  /\ ticks < MaxFrames
  /\ dt = 16 \/ ReadsClock(canvas)
  /\ canvas' = gcUpdate([canvas EXCEPT !.now = @ + dt], dirX8)
  /\ ticks' = ticks + 1
  /\ UNCHANGED <<variant, engine, played, vision>>

gameLoop(lm, rnd) ==
  /\ variant = "engine"
  /\ engine.gameState # INITIALIZING
  /\ engine.requestRef
  /\ engine.mounted \/ lm = NoHand
  /\ ticks < MaxTicks
  /\ engine' = update(engine, lm, rnd)
  /\ ticks' = ticks + 1
  /\ UNCHANGED <<variant, canvas, played, vision>>

Init ==
  /\ \/ variant = "engine" /\ engine \in EngineSeeds /\ canvas = CanvasInit
     \/ /\ variant = "canvas"
        /\ engine = EngineInit(0)
        /\ canvas \in CanvasSeeds
  /\ played = <<>>
  /\ ticks = 0
  /\ vision = VisionInit

Next ==
  \/ initialized
  \/ gotUserMedia
  \/ onloadeddata
  \/ \E lm \in Frames, rnd \in TickRnds : gameLoop(lm, rnd)
  \/ handleCameraReady
  \/ \E h \in HandUpdates : handleHandUpdate(h[1], h[2])
  \/ AppGestureEffect
  \/ AppCountdownEffect
  \/ restartGame
  \/ CanvasEffects
  \/ \E dt \in FrameMs, d \in DirX8s : animate(dt, d)

Spec == Init /\ [][Next]_vars

\* the ticks of GameEngine alone
InitEngine == Init /\ variant = "engine"

NextEngine ==
  \/ initialized
  \/ gotUserMedia
  \/ onloadeddata
  \/ \E lm \in Frames, rnd \in TickRnds : gameLoop(lm, rnd)

SpecEngine == InitEngine /\ [][NextEngine]_vars

\* the ticks at the end of a long rally, with the frames of the ticks and
\* the aiming hand
InitRally ==
  /\ variant = "engine"
  /\ engine \in LongRallySeeds
  /\ canvas = CanvasInit
  /\ played = <<>>
  /\ ticks = 0
  /\ vision = VisionInit

NextRally ==
  \E lm \in Frames \cup {Aim(engine)}, rnd \in SeedRnds : gameLoop(lm, rnd)

SpecRally == InitRally /\ [][NextRally]_vars

\* what the camera can show: the frames of the ticks, and an open hand
\* in the image, to the side of the middle
Pictures == Frames \cup {Hand(UNIT \div 4, OPEN)}

\* the camera delivers its next frame
cameraFrame(picture) ==
  /\ vision.currentTime < MaxVideo
  /\ vision' = [vision EXCEPT !.currentTime = @ + 1, !.picture = picture]
  /\ UNCHANGED <<variant, engine, canvas, played, ticks>>

\* gameLoop with its request to the VisionService
gameLoopDetect(rnd) ==
  /\ variant = "engine"
  /\ engine.gameState # INITIALIZING
  /\ engine.requestRef
  /\ ticks < MaxDetect
  /\ LET request == detect(vision)
     IN  /\ vision' = request.vision
         /\ engine' = update(engine, request.landmarks, rnd)
  /\ ticks' = ticks + 1
  /\ UNCHANGED <<variant, canvas, played>>

\* one pass of the loop of Pong Motion's VisionService, started on
\* loadeddata; onResults is App.handleHandUpdate
processVideoPass ==
  /\ variant = "canvas"
  /\ ~EffectsPending(canvas)
  /\ canvas.gameState # LOADING
  /\ ticks < MaxDetect
  /\ LET pass == processVideo(vision)
     IN  /\ vision' = pass.vision
         /\ canvas' = IF pass.calls = <<>>
                        THEN canvas
                        ELSE [canvas EXCEPT !.paddleX = pass.calls[1].x,
                                            !.handGesture = pass.calls[1].gesture]
  /\ ticks' = ticks + 1
  /\ UNCHANGED <<variant, engine, played>>

\* the loops that ask for detection, from the constructed state of either
\* variant and from GameEngine with the first serve pending
InitVision ==
  /\ \/ /\ variant = "engine"
        /\ engine \in {EngineInit(randomX) : randomX \in LaunchDxs}
                         \cup {Started(rnd) : rnd \in SeedRnds}
        /\ canvas = CanvasInit
     \/ variant = "canvas" /\ engine = EngineInit(0) /\ canvas = CanvasInit
  /\ played = <<>>
  /\ ticks = 0
  /\ vision = VisionInit

NextVision ==
  \/ initialized
  \/ gotUserMedia
  \/ onloadeddata
  \/ \E picture \in Pictures : cameraFrame(picture)
  \/ \E rnd \in TickRnds : gameLoopDetect(rnd)
  \/ handleCameraReady
  \/ processVideoPass
  \/ AppGestureEffect
  \/ AppCountdownEffect
  \/ CanvasEffects

SpecVision == InitVision /\ [][NextVision]_vars

\* an interval set by startServePhase fires
interval(i) ==
  /\ variant = "engine"
  /\ i \in 1..Len(engine.intervals)
  /\ engine' = intervalCallback(engine, i)
  /\ UNCHANGED <<variant, canvas, played, ticks, vision>>

\* the cleanup of the init effect, lines 422-424
cleanup(g) == [g EXCEPT !.mounted = FALSE, !.requestRef = FALSE]

\* GameEngine is unmounted
unmount ==
  /\ variant = "engine"
  /\ engine.mounted
  /\ engine' = cleanup(engine)
  /\ UNCHANGED <<variant, canvas, played, ticks, vision>>

\* matches in which the serve was launched as soon as its phase began: the
\* ball is near a paddle and the interval of the phase is still set
LiveSeeds ==
  {Approach(PointsWon(Started(rnd), w, rnd), rnd, MaxApproach) :
     w \in {<<>>, Wins(1, AI) \o Wins(1, PLAYER)}, rnd \in SeedRnds}

\* the ticks of GameEngine, the callbacks of its intervals and its
\* unmounting, in any order
InitCountdown ==
  /\ variant = "engine"
  /\ engine \in {EngineInit(randomX) : randomX \in LaunchDxs}
                   \cup {Started(rnd) : rnd \in SeedRnds}
                   \cup LiveSeeds
  /\ canvas = CanvasInit
  /\ played = <<>>
  /\ ticks = 0
  /\ vision = VisionInit

NextCountdown ==
  \/ initialized
  \/ gotUserMedia
  \/ onloadeddata
  \/ \E lm \in Frames, rnd \in SeedRnds : gameLoop(lm, rnd)
  \/ \E i \in 1..MaxIntervals : interval(i)
  \/ unmount

SpecCountdown == InitCountdown /\ [][NextCountdown]_vars

(* Mount and unmount: the asynchronous start of GameEngine and of Pong     *)
(* Motion's WebcamInput, each with its cleanup at any moment.              *)

visionReady ==
  /\ variant = "canvas"
  /\ vision.init = "initialize"
  /\ vision' = initVision(vision)
  /\ UNCHANGED <<variant, engine, canvas, played, ticks>>

cameraGranted ==
  /\ variant = "canvas"
  /\ vision.init = "getUserMedia"
  /\ vision' = startCamera(vision)
  /\ UNCHANGED <<variant, engine, canvas, played, ticks>>

\* the listener of WebcamInput: onCameraReady is App.handleCameraReady;
\* VisionService.start runs the first pass of processVideo, which
\* requests the next one
loadeddata ==
  /\ variant = "canvas"
  /\ vision.init = "loadeddata"
  /\ ~EffectsPending(canvas)
  /\ LET c1 == IF canvas.gameState = LOADING
                 THEN [canvas EXCEPT !.gameState = MENU]
                 ELSE canvas
         pass == processVideo(vision)
     IN  IF vision.mounted
           THEN /\ vision' = [pass.vision EXCEPT !.init = "done", !.frameId = TRUE]
                /\ canvas' = IF pass.calls = <<>>
                               THEN c1
                               ELSE [c1 EXCEPT !.paddleX = pass.calls[1].x,
                                               !.handGesture = pass.calls[1].gesture]
           ELSE /\ vision' = [vision EXCEPT !.init = "done"]
                /\ canvas' = c1
  /\ UNCHANGED <<variant, engine, played, ticks>>

\* a requested pass of processVideo
processVideoFrame == vision.frameId /\ processVideoPass

unmountWebcam ==
  /\ variant = "canvas"
  /\ vision.mounted
  /\ vision' = webcamCleanup(vision)
  /\ UNCHANGED <<variant, engine, canvas, played, ticks>>

InitTeardown ==
  /\ \/ variant = "engine" /\ \E randomX \in LaunchDxs : engine = EngineInit(randomX)
     \/ variant = "canvas" /\ engine = EngineInit(0)
  /\ canvas = CanvasInit
  /\ played = <<>>
  /\ ticks = 0
  /\ vision = VisionInit

NextTeardown ==
  \/ initialized
  \/ gotUserMedia
  \/ onloadeddata
  \/ \E lm \in Frames, rnd \in SeedRnds : gameLoop(lm, rnd)
  \/ unmount
  \/ visionReady
  \/ cameraGranted
  \/ loadeddata
  \/ \E picture \in Pictures : variant = "canvas" /\ cameraFrame(picture)
  \/ processVideoFrame
  \/ unmountWebcam
  \/ AppGestureEffect
  \/ AppCountdownEffect
  \/ CanvasEffects

SpecTeardown == InitTeardown /\ [][NextTeardown]_vars

(* The serve of the player in front of the camera: a serve of the player   *)
(* is pending, the camera goes on delivering frames, the loops detect and  *)
(* the games run.  GameEngine has been started by a fist, which the        *)
(* detector has seen; in Pong Motion the player has bent the index finger  *)
(* for a serve before, which the detector has seen.                        *)

ServeSeen(pose) ==
  [VisionInit EXCEPT !.picture = Hand(UNIT \div 2, pose),
                     !.lastVideoTime = 0,
                     !.init = "done",
                     !.frameId = TRUE]

InitServe ==
  /\ \/ /\ variant = "engine"
        /\ engine \in {Started(rnd) : rnd \in SeedRnds}
        /\ canvas = CanvasInit
        /\ vision = ServeSeen(CLENCHED)
     \/ /\ variant = "canvas"
        /\ engine = EngineInit(0)
        /\ canvas \in {gcPointsWon(GcPlaying, w, d) :
                          w \in {<<>>, Wins(1, AI), Wins(1, PLAYER)}, d \in DirX8s}
        /\ vision = ServeSeen(BENT)
  /\ played = <<>>
  /\ ticks = 0

NextServe ==
  \/ \E picture \in Pictures : cameraFrame(picture)
  \/ \E rnd \in SeedRnds : gameLoopDetect(rnd)
  \/ processVideoFrame
  \/ CanvasEffects
  \/ \E dt \in FrameMs, d \in DirX8s : animate(dt, d)

SpecServe == InitServe /\ [][NextServe]_vars

(* Both games side by side: a match of GameEngine and a match of           *)
(* GameCanvas are started at 0-0 and every point goes to the same side in  *)
(* both.                                                                    *)

\* the serve is launched and the ball leaves the field at the winner's
\* far end, in both games
pointBoth(winner) ==
  /\ variant = "lockstep"
  /\ engine.gameState = SERVING
  /\ canvas.gameState = PLAYING /\ canvas.isServing
  /\ engine.scores.player < MaxScore /\ engine.scores.ai < MaxScore
  /\ \E rnd \in Rnds :
       engine' = scorePoint(triggerServe(runOut(engine)), winner, rnd)
  /\ \E d \in DirX8s :
       canvas' = handleScoring(launchBall(canvas, d), GcSide(winner))
  /\ played' = Record(engine.serveTurn)
  /\ UNCHANGED <<variant, ticks, vision>>

InitLockstep ==
  /\ variant = "lockstep"
  /\ engine \in {Started(rnd) : rnd \in SeedRnds}
  /\ canvas = GcPlaying
  /\ played = <<>>
  /\ ticks = 0
  /\ vision = VisionInit

NextLockstep == \E w \in ServeTurn : pointBoth(w)

SpecLockstep == InitLockstep /\ [][NextLockstep]_vars

----------------------------------------------------------------------------
(* Claims about the match rules, checked under SpecMatch *)

Total(s) == s.player + s.ai

\* the end of a match as the rules state it
MatchDecided(s) ==
  (s.player >= 11 \/ s.ai >= 11) /\ (s.player - s.ai >= 2 \/ s.ai - s.player >= 2)

BothAtTen(s) == s.player >= 10 /\ s.ai >= 10

\* s and t agree wherever both are defined
Agree(s, t) == \A i \in 1..Len(s) : i <= Len(t) => s[i] = t[i]

\* a step in which one point is credited
EnginePointStep == Total(engine'.scores) = Total(engine.scores) + 1

CanvasPointStep == Total(canvas'.scores) = Total(canvas.scores) + 1

\* C1: in both variants the match is over exactly when a side has at least
\* 11 points and leads by at least 2: GAME_OVER implies it, and while a
\* serve is pending or the ball is in play it does not hold.
C1_GameOverIffDecided ==
  /\ engine.gameState = GAME_OVER => MatchDecided(engine.scores)
  /\ engine.gameState \in {SERVING, PLAYING} => ~MatchDecided(engine.scores)
  /\ canvas.gameState = GAME_OVER => MatchDecided(canvas.scores)
  /\ canvas.gameState = PLAYING => ~MatchDecided(canvas.scores)

\* a match won from the deuce, and one lost to nil
C1_Witness ==
  /\ engine.gameState = GAME_OVER
  /\ engine.scores = [player |-> 12, ai |-> 10]

\* C3: below the deuce, while the match is undecided, the server changes
\* after a point exactly when the number of points played is even, whoever
\* won them; the first five points are served by P, P, A, A, P.
C3_TwoServesEach ==
  /\ [](/\ variant = "engine" => Agree(played, <<PLAYER, PLAYER, AI, AI, PLAYER>>)
        /\ variant = "canvas" => Agree(played, <<"player", "player", "ai", "ai", "player">>))
  /\ [][/\ (EnginePointStep /\ ~BothAtTen(engine'.scores) /\ ~MatchDecided(engine'.scores))
             => ((engine'.serveTurn # engine.serveTurn) <=> (Total(engine'.scores) % 2 = 0))
        /\ (CanvasPointStep /\ ~BothAtTen(canvas'.scores) /\ ~MatchDecided(canvas'.scores))
             => ((canvas'.server # canvas.server) <=> (Total(canvas'.scores) % 2 = 0))]_vars

\* five points played, three of them won by the player, who serves the
\* sixth
C3_Witness ==
  /\ Len(played) >= 5
  /\ engine.scores = [player |-> 3, ai |-> 2]
  /\ engine.gameState = SERVING
  /\ engine.serveTurn = PLAYER

\* C4: once both scores are at least 10 and the match is undecided, every
\* point changes the server.
C4_DeuceAlternates ==
  [][/\ (EnginePointStep /\ BothAtTen(engine'.scores) /\ ~MatchDecided(engine'.scores))
          => engine'.serveTurn # engine.serveTurn
     /\ (CanvasPointStep /\ BothAtTen(canvas'.scores) /\ ~MatchDecided(canvas'.scores))
          => canvas'.server # canvas.server]_vars

\* the third serve of a deuce
C4_Witness ==
  /\ engine.scores = [player |-> 11, ai |-> 11]
  /\ engine.gameState = SERVING

\* C5: whenever a point changes the server, the serve counter is 0
\* afterwards, in GameEngine and in GameCanvas.
C5_CounterResetOnSwitch ==
  [][/\ (EnginePointStep /\ engine'.serveTurn # engine.serveTurn)
          => engine'.servesCount = 0
     /\ (CanvasPointStep /\ canvas'.server # canvas.server)
          => canvas'.servesCount = 0]_vars

\* who serves after t points, by the rules: two serves each below 20
\* points played, one serve each from then on, the player first
ServerAfter(t) ==
  IF t < 20
    THEN (IF (t \div 2) % 2 = 0 THEN PLAYER ELSE AI)
    ELSE (IF t % 2 = 0 THEN PLAYER ELSE AI)

\* C27: in GameEngine the server is a function of the number of points
\* played: while a serve is pending or the ball is in play, below 20
\* points the player serves exactly when floor(t / 2) is even, and from 20
\* points on exactly when t is even.
C27_ServerByTotal ==
  (variant = "engine" /\ engine.gameState \in {SERVING, PLAYING})
    => engine.serveTurn = ServerAfter(Total(engine.scores))

\* the second serve of a deuce, which is the opponent's
C27_Witness ==
  /\ variant = "engine"
  /\ engine.gameState = SERVING
  /\ engine.scores = [player |-> 10, ai |-> 11]
  /\ engine.serveTurn = AI

\* C29: a match of GameEngine that is over has been won by exactly the
\* margin the rules allow: the winner has max(11, l + 2) points where l is
\* the loser's score, so there is no end at 12-9 or 13-10.
C29_FinalScore ==
  (variant = "engine" /\ engine.gameState = GAME_OVER)
    => Max(engine.scores.player, engine.scores.ai)
         = Max(11, Min(engine.scores.player, engine.scores.ai) + 2)

\* a match lost after three points of deuce
C29_Witness ==
  /\ variant = "engine"
  /\ engine.gameState = GAME_OVER
  /\ engine.scores = [player |-> 11, ai |-> 13]

\* the state every match starts in
FreshMatch(g) ==
  /\ g.scores = [player |-> 0, ai |-> 0]
  /\ g.serveTurn = PLAYER
  /\ g.servesCount = 0
  /\ g.gameState = SERVING
  /\ g.ball.dx = 0 /\ g.ball.dy = 0
  /\ g.serveInfo = [turn |-> PLAYER, countdown |-> 3]

\* C30: every start of a match in GameEngine, from MENU or from GAME_OVER
\* after any match, one decided in the deuce included, gives the scores
\* 0-0, the player as server, the serve counter 0, the phase SERVING, the
\* ball at rest and the countdown 3.
C30_FreshStart ==
  /\ []((variant = "engine" /\ engine.gameState \in {MENU, GAME_OVER})
          => \A rnd \in Rnds : FreshMatch(startGame(engine, rnd)))
  /\ [][(variant = "engine" /\ engine.gameState \in {MENU, GAME_OVER}
           /\ engine'.gameState # engine.gameState)
          => FreshMatch(engine')]_vars

\* a match decided in the deuce, where the serve counter has kept growing,
\* is over and can be started again
C30_Witness ==
  /\ variant = "engine"
  /\ engine.gameState = GAME_OVER
  /\ engine.scores = [player |-> 13, ai |-> 11]
  /\ engine.servesCount > 2

----------------------------------------------------------------------------
(* Claims about the ticks of GameEngine, checked under SpecEngine *)

NoScore == [player |-> 0, ai |-> 0]

FistFrame(lm) == lm.hand /\ isFist(lm.landmarks)

\* the row of the ball while the side turn prepares its serve
ServeRow(turn) ==
  IF turn = PLAYER
    THEN CANVAS_HEIGHT - WALL_OFFSET - PADDLE_HEIGHT - BALL_RADIUS - 5 * PX
    ELSE WALL_OFFSET + PADDLE_HEIGHT + BALL_RADIUS + 5 * PX

ServerPaddleX(g) == IF g.serveTurn = PLAYER THEN g.paddlePlayerX ELSE g.paddleAIX

Still(b) == b.dx = 0 /\ b.dy = 0

\* the phase when update looks at the gesture of the frame
PhaseAtGesture(g, lm) == IF lm.hand THEN handSeen(g).gameState ELSE g.gameState

\* the values the phase takes during one call of update
PhasePath(g, lm, rnd) ==
  <<g.gameState, PhaseAtGesture(g, lm), processInput(g, lm, rnd).gameState,
    update(g, lm, rnd).gameState>>

PhaseEdges ==
  { <<INITIALIZING, WAITING_FOR_HAND>>, <<WAITING_FOR_HAND, MENU>>,
    <<MENU, SERVING>>, <<SERVING, PLAYING>>, <<PLAYING, SERVING>>,
    <<PLAYING, GAME_OVER>>, <<GAME_OVER, SERVING>> }

AlongEdges(path) ==
  \A i \in 1..(Len(path) - 1) :
    path[i] = path[i + 1] \/ <<path[i], path[i + 1]>> \in PhaseEdges

\* C2: the scores are never negative; no step lowers a score except by
\* setting both to 0; a tick does that only if its frame is a fist and the
\* phase at that moment is MENU or GAME_OVER, and never during SERVING or
\* PLAYING.
C2_ScoresMonotone ==
  /\ [](/\ engine.scores.player >= 0 /\ engine.scores.ai >= 0
        /\ \A lm \in Frames, rnd \in TickRnds :
             LET after == update(engine, lm, rnd)
             IN  \/ /\ after.scores.player >= engine.scores.player
                    /\ after.scores.ai >= engine.scores.ai
                 \/ /\ after.scores = NoScore
                    /\ FistFrame(lm)
                    /\ PhaseAtGesture(engine, lm) \in {MENU, GAME_OVER}
                    /\ engine.gameState \notin {SERVING, PLAYING})
  /\ [][\/ /\ engine'.scores.player >= engine.scores.player
           /\ engine'.scores.ai >= engine.scores.ai
        \/ engine'.scores = NoScore /\ engine.gameState \in {MENU, GAME_OVER}]_vars

\* a lost match that the next fist restarts from 0-0
C2_Witness ==
  /\ engine.gameState = GAME_OVER
  /\ engine.scores = [player |-> 9, ai |-> 11]
  /\ ticks < MaxTicks
  /\ \E x \in TipXs, rnd \in TickRnds :
       update(engine, Hand(x, CLENCHED), rnd).scores = NoScore

\* C6: in SERVING the ball does not move; a step gives a resting ball a
\* velocity only if it leads from SERVING to PLAYING.
C6_StillWhileServing ==
  /\ [](engine.gameState = SERVING => Still(engine.ball))
  /\ [][(Still(engine.ball) /\ ~Still(engine'.ball))
          => (engine.gameState = SERVING /\ engine'.gameState = PLAYING)]_vars

\* the opponent has launched the serve that follows a point
C6_Witness ==
  /\ engine.gameState = PLAYING
  /\ engine.scores = [player |-> 1, ai |-> 2]
  /\ engine.ball.dy = 7 * PX

\* C7: after every tick that ends in SERVING the ball lies on the server's
\* paddle: its x is the paddle's x, its y the serve row.
C7_PinnedAfterEveryTick ==
  [][(ticks' # ticks /\ engine'.gameState = SERVING)
       => (/\ engine'.ball.x = ServerPaddleX(engine')
           /\ engine'.ball.y = ServeRow(engine'.serveTurn))]_vars

\* C9: every value the phase takes during a tick follows the previous one
\* along an edge of the list; a tick without a hand frame does not leave
\* WAITING_FOR_HAND; INITIALIZING is left for WAITING_FOR_HAND only.
C9_PhaseEdges ==
  /\ [](\A lm \in Frames, rnd \in TickRnds :
          /\ AlongEdges(PhasePath(engine, lm, rnd))
          /\ (engine.gameState = WAITING_FOR_HAND /\ ~lm.hand)
               => update(engine, lm, rnd).gameState = WAITING_FOR_HAND)
  /\ [][\/ ticks' # ticks
        \/ engine'.gameState = engine.gameState
        \/ <<engine.gameState, engine'.gameState>> \in PhaseEdges]_vars

\* a match has been decided by a tick
C9_Witness == engine.gameState = GAME_OVER /\ ticks > 0

\* C10: in GAME_OVER a tick whose frame is absent or not a fist leaves the
\* phase, the scores, the server, the serve counter, the ball and the
\* opponent's paddle as they are; a tick whose frame is a fist leads to
\* SERVING.
C10_GameOverFrozen ==
  engine.gameState = GAME_OVER =>
    \A lm \in Frames, rnd \in TickRnds :
      LET after == update(engine, lm, rnd)
      IN  IF FistFrame(lm)
            THEN after.gameState = SERVING
            ELSE /\ after.gameState = GAME_OVER
                 /\ after.scores = engine.scores
                 /\ after.serveTurn = engine.serveTurn
                 /\ after.servesCount = engine.servesCount
                 /\ after.ball = engine.ball
                 /\ after.paddleAIX = engine.paddleAIX

\* ticks have passed since the match was decided
C10_Witness ==
  /\ engine.gameState = GAME_OVER
  /\ engine.scores.ai = 11
  /\ ticks = MaxTicks

\* a frame with a hand in which the index finger is bent and the hand is
\* not a fist
BentFrame(lm) == lm.hand /\ isIndexBent(lm.landmarks) /\ ~isFist(lm.landmarks)

\* C11: a gesture that is not valid for the phase changes nothing but the
\* player's paddle: the input stage of a tick whose frame is a fist, in
\* SERVING or PLAYING, leaves the scores, the server, the serve counter and
\* the phase as they are; the input stage of a tick whose frame has the
\* index bent and is not a fist, in MENU, PLAYING or GAME_OVER or in SERVING
\* with the opponent serving, leaves the phase and the ball's velocity as
\* they are.
C11_InvalidGesturesIgnored ==
  \A lm \in Frames, rnd \in TickRnds :
    LET after == processInput(engine, lm, rnd)
    IN  /\ (FistFrame(lm) /\ engine.gameState \in {SERVING, PLAYING})
             => /\ after.scores = engine.scores
                /\ after.serveTurn = engine.serveTurn
                /\ after.servesCount = engine.servesCount
                /\ after.gameState = engine.gameState
        /\ (/\ BentFrame(lm)
            /\ \/ engine.gameState \in {MENU, PLAYING, GAME_OVER}
               \/ engine.gameState = SERVING /\ engine.serveTurn = AI)
             => /\ after.gameState = engine.gameState
                /\ after.ball.dx = engine.ball.dx
                /\ after.ball.dy = engine.ball.dy

\* C12: while the player is the server, a tick leads from SERVING to
\* PLAYING only if the countdown of the serve phase has reached 0.
C12_LaunchOnlyAtGo ==
  [][(/\ engine.gameState = SERVING
      /\ engine.serveTurn = PLAYER
      /\ engine'.gameState = PLAYING)
       => engine.serveInfo.countdown = 0]_vars

\* C14: the hand is declared lost only by a tick that is at least the
\* 31st frameless tick in a row: a frameless tick adds one to the counter
\* of missing frames, a tick with a hand frame sets it to 0 and never
\* clears handDetected, and a frameless tick clears handDetected only if
\* the counter is above 30 after it; up to 30 it leaves handDetected as it
\* is.
C14_LossDebounced ==
  /\ [](\A lm \in Frames, rnd \in TickRnds :
          LET after == update(engine, lm, rnd)
          IN  IF lm.hand
                THEN after.missingHandFrames = 0 /\ after.handDetected
                ELSE /\ after.missingHandFrames = engine.missingHandFrames + 1
                     /\ (engine.handDetected /\ ~after.handDetected)
                          => after.missingHandFrames >= 31
                     /\ after.missingHandFrames <= 30
                          => after.handDetected = engine.handDetected)
  /\ [][(engine.handDetected /\ ~engine'.handDetected)
          => engine'.missingHandFrames >= 31]_vars

\* the 31st frameless tick has declared the hand lost
C14_Witness ==
  /\ ~engine.handDetected
  /\ engine.missingHandFrames = 31
  /\ engine.handStatus = "Lost Tracking - Raise Hand"

\* C15: after every tick that receives a hand frame the counter of missing
\* frames is 0 and handDetected is true, whatever they were before.
C15_HandFrameResets ==
  \A lm \in Frames, rnd \in TickRnds :
    lm.hand => LET after == update(engine, lm, rnd)
               IN  after.missingHandFrames = 0 /\ after.handDetected

\* the hand was lost for more than 31 ticks and the next frame brings it
\* back
C15_Witness ==
  /\ ~engine.handDetected
  /\ engine.missingHandFrames > 31
  /\ ticks < MaxTicks
  /\ \E x \in TipXs, rnd \in TickRnds :
       LET after == update(engine, Hand(x, OPEN), rnd)
       IN  after.handDetected /\ after.handStatus = "Hand Detected"

\* C16: losing the hand is a change of status only.  A tick without a hand
\* frame leaves the player's paddle where it is, does not start a match
\* (MENU and GAME_OVER stay) and does not launch the player's serve; its
\* input stage, the one that declares the hand lost, leaves the phase, the
\* scores, the server, the serve counter, the ball and both paddles as they
\* are.
C16_LossIsStatusOnly ==
  \A rnd \in TickRnds :
    LET input == processInput(engine, NoHand, rnd)
        after == update(engine, NoHand, rnd)
    IN  /\ after.paddlePlayerX = engine.paddlePlayerX
        /\ engine.gameState \in {WAITING_FOR_HAND, MENU, GAME_OVER}
             => after.gameState = engine.gameState /\ after.scores = engine.scores
        /\ (engine.gameState = SERVING /\ engine.serveTurn = PLAYER)
             => after.gameState = SERVING /\ Still(after.ball)
        /\ input.gameState = engine.gameState
        /\ input.scores = engine.scores
        /\ input.serveTurn = engine.serveTurn
        /\ input.servesCount = engine.servesCount
        /\ input.ball = engine.ball
        /\ input.paddlePlayerX = engine.paddlePlayerX
        /\ input.paddleAIX = engine.paddleAIX

\* the hand has been declared lost while the ball was in flight
C16_Witness ==
  /\ engine.gameState = PLAYING
  /\ ~engine.handDetected
  /\ engine.missingHandFrames = 31
  /\ engine.ball.dy # 0

----------------------------------------------------------------------------
(* Claims about both variants frame by frame, checked under Spec *)

InField(x, lo, hi) == lo <= x /\ x <= hi

\* C8: the paddles stay in the field.  In GameEngine both centres lie in
\* [PADDLE_WIDTH/2, CANVAS_WIDTH - PADDLE_WIDTH/2], also after a tick with
\* the index tip anywhere between -4 and 5; in GameCanvas both left edges
\* lie in [0, GAME_WIDTH - PADDLE_WIDTH], also after a frame with the hand
\* anywhere between -4 and 5.
C8_PaddlesInField ==
  /\ InField(engine.paddlePlayerX, 60 * PX, 1220 * PX)
  /\ InField(engine.paddleAIX, 60 * PX, 1220 * PX)
  /\ InField(canvas.physics.paddleX, 0, 680 * PX)
  /\ InField(canvas.physics.aiPaddleX, 0, 680 * PX)
  /\ variant = "engine" =>
       \A x \in WideXs, pose \in Poses, rnd \in SeedRnds :
         LET after == update(engine, Hand(x, pose), rnd)
         IN  /\ InField(after.paddlePlayerX, 60 * PX, 1220 * PX)
             /\ InField(after.paddleAIX, 60 * PX, 1220 * PX)
  /\ variant = "canvas" =>
       \A x \in WideXs, d \in DirX8s :
         LET after == gcUpdate([canvas EXCEPT !.seen.paddleX = UNIT - x], d)
         IN  /\ InField(after.physics.paddleX, 0, 680 * PX)
             /\ InField(after.physics.aiPaddleX, 0, 680 * PX)

\* the opponent of GameCanvas has served from its paddle, the player's
\* paddle has been pulled to the left
C8_Witness ==
  /\ variant = "canvas"
  /\ canvas.server = "ai"
  /\ ~canvas.isServing
  /\ canvas.physics.ball.dy = 12 * PX
  /\ canvas.physics.ball.y < GAME_HEIGHT \div 2
  /\ canvas.physics.paddleX < 300 * PX

\* the delay of the opponent's serve in GameCanvas, in milliseconds
ServeDelayMs == 1500

\* C13: while the opponent is the server the serve is launched by the tick
\* itself after a fixed delay: whether a tick of the serve phase launches is
\* settled by the time that has passed since the phase began, the same for
\* every serve and never before the delay is over.  In GameEngine the tick
\* launches or not whatever is drawn; in GameCanvas the frame launches
\* exactly when more than ServeDelayMs have passed since the reset.
C13_FixedServeDelay ==
  /\ (variant = "engine" /\ engine.gameState = SERVING /\ engine.serveTurn = AI)
       => \A lm \in Frames, r1 \in TickRnds, r2 \in TickRnds :
            update(engine, lm, r1).gameState = update(engine, lm, r2).gameState
  /\ (variant = "canvas" /\ ReadsClock(canvas))
       => \A dt \in FrameMs, d \in DirX8s :
            LET after == gcUpdate([canvas EXCEPT !.now = @ + dt], d)
            IN  ~after.isServing
                  <=> canvas.now + dt - canvas.serveTimer > ServeDelayMs

\* the scores s with one more point for the side
Credit(s, side) == [s EXCEPT ![side] = @ + 1]

\* the engine when the physics of a tick begin
AtPhysics(g, lm, rnd) == aiLogic(processInput(g, lm, rnd))

\* the canvas when update has moved the player's paddle
GcAtPhysics(c) ==
  [c EXCEPT !.physics.paddleX =
              @ + Scale(Clamp(0, GAME_WIDTH - GC_PADDLE_WIDTH,
                              Scale(c.seen.paddleX, GAME_WIDTH, UNIT)
                                - GC_PADDLE_WIDTH \div 2) - @, 3, 10)]

\* C18: a tick of active play that ends with the ball above the field
\* (y < 0) credits one point to the player and none to the opponent, one
\* that ends with the ball below the field (y > height) credits one point
\* to the opponent and none to the player, and one that ends with the ball
\* in the field changes no score, with or without a paddle hit in the
\* tick; in GameEngine and in GameCanvas.
C18_ScoringOrientation ==
  /\ variant = "engine" =>
       \A lm \in Frames, rnd \in TickRnds :
         LET before == AtPhysics(engine, lm, rnd)
             y == ballFlight(before, rnd).ball.y
             after == update(engine, lm, rnd)
         IN  before.gameState = PLAYING =>
               after.scores = IF y < 0 THEN Credit(before.scores, "player")
                              ELSE IF y > CANVAS_HEIGHT
                                     THEN Credit(before.scores, "ai")
                                     ELSE before.scores
  /\ (variant = "canvas" /\ canvas.seen.gameState = PLAYING /\ ~canvas.isServing) =>
       \A d \in DirX8s :
         LET y == gcBallFlight(GcAtPhysics(canvas)).physics.ball.y
             after == gcUpdate(canvas, d)
         IN  after.scores = IF y < 0 THEN Credit(canvas.scores, "player")
                            ELSE IF y > GAME_HEIGHT
                                   THEN Credit(canvas.scores, "ai")
                                   ELSE canvas.scores

\* the opponent of GameEngine has missed the ball of the first rally and
\* the player has been credited
C18_Witness ==
  /\ variant = "engine"
  /\ ticks > 0
  /\ engine.scores = [player |-> 1, ai |-> 0]
  /\ engine.gameState = SERVING

\* a tick of GameEngine in active play, before and after
EngineFlightStep ==
  /\ variant = "engine"
  /\ ticks' # ticks
  /\ engine.gameState = PLAYING
  /\ engine'.gameState = PLAYING

\* a frame of GameCanvas with the ball in flight, before and after
CanvasFlightStep ==
  /\ variant = "canvas"
  /\ ticks' # ticks
  /\ ~canvas.isServing
  /\ ~canvas'.isServing

\* C19: every paddle hit makes the vertical speed of the ball strictly
\* greater: in GameEngine a tick of active play that turns the ball round
\* leaves |dy| greater than it was and every other tick leaves dy as it
\* is; in GameCanvas a frame that changes dy in flight leaves |dy| greater
\* than it was.
C19_FasterAfterEveryHit ==
  [][/\ EngineFlightStep
          => IF engine.ball.dy * engine'.ball.dy < 0
               THEN Abs(engine'.ball.dy) > Abs(engine.ball.dy)
               ELSE engine'.ball.dy = engine.ball.dy
     /\ (CanvasFlightStep /\ canvas'.physics.ball.dy # canvas.physics.ball.dy)
          => Abs(canvas'.physics.ball.dy) > Abs(canvas.physics.ball.dy)]_vars

\* C20: the opponent's paddle moves by at most its maximum speed in every
\* tick, in active play and while a serve is pending: by at most
\* PADDLE_SPEED_AI in GameEngine and by at most 8 pixels in GameCanvas.
C20_OpponentRateLimited ==
  [][/\ (variant = "engine" /\ ticks' # ticks)
          => Abs(engine'.paddleAIX - engine.paddleAIX) <= PADDLE_SPEED_AI
     /\ (variant = "canvas" /\ ticks' # ticks)
          => Abs(canvas'.physics.aiPaddleX - canvas.physics.aiPaddleX) <= 8 * PX]_vars

----------------------------------------------------------------------------
(* Claims about the requests for detection, checked under SpecVision *)

\* the request finds the frame it has seen before
SameFrame == vision.currentTime = vision.lastVideoTime

\* C17: a request for detection while the video's time is the one of the
\* last request runs no detection and no classification: detect gives no
\* landmarks, so the tick of GameEngine is the tick without a hand and
\* leaves the player's paddle where it is; processVideo calls neither
\* analyzeHand nor onResults and leaves App's paddle position and gesture
\* as they are.
C17_NoSecondDetection ==
  /\ [](SameFrame
          => /\ ~detect(vision).ran
             /\ ~detect(vision).landmarks.hand
             /\ ~processVideo(vision).ran
             /\ processVideo(vision).calls = <<>>)
  /\ [][(SameFrame /\ ticks' # ticks)
          => IF variant = "engine"
               THEN /\ engine'.paddlePlayerX = engine.paddlePlayerX
                    /\ \E rnd \in TickRnds :
                         engine' = update(engine, NoHand, rnd)
               ELSE canvas' = canvas]_vars

\* GameEngine has asked twice for the same frame, which shows a hand the
\* paddle has not reached yet
C17_Witness ==
  /\ variant = "engine"
  /\ SameFrame
  /\ vision.picture.hand
  /\ engine.handDetected
  /\ engine.missingHandFrames = 1
  /\ updatePlayerPaddle(engine, vision.picture.landmarks).paddlePlayerX
       # engine.paddlePlayerX

\* a tick that enters a serve phase
EnteredServe ==
  /\ ticks' # ticks
  /\ engine.gameState # SERVING
  /\ engine'.gameState = SERVING

\* a tick of active play in which the player's paddle returns the ball
PlayerHitStep == EngineFlightStep /\ engine.ball.dy > 0 /\ engine'.ball.dy < 0

\* where a hit of the player's paddle puts the ball
PlayerBounceY ==
  CANVAS_HEIGHT - WALL_OFFSET - PADDLE_HEIGHT - BALL_RADIUS - 1 * PX

\* C24: the error of the opponent's aim is drawn only on entry into a
\* serve phase and in a tick in which the player's paddle hits the ball:
\* every other tick (a hit of the opponent, a reflection at a side wall, a
\* tick in MENU, GAME_OVER or any phase without these two events) leaves
\* aiErrorOffset as it was.
C24_ErrorRedrawnOnlyOnServeAndPlayerHit ==
  [][(variant = "engine" /\ engine'.aiErrorOffset # engine.aiErrorOffset)
       => (EnteredServe \/ PlayerHitStep)]_vars

\* the player's paddle has just returned the ball and the error is one
\* drawn at a hit
C24_Witness ==
  /\ variant = "engine"
  /\ ticks > 0
  /\ engine.gameState = PLAYING
  /\ engine.ball.y = PlayerBounceY
  /\ engine.ball.dy < 0
  /\ engine.aiErrorOffset \in {Scale(err, 80 * PX, 100) : err \in Errs}

\* C25: the error drawn on entry into a serve phase comes from a wider
\* range than the error drawn at a hit of the player's paddle: whatever
\* error a player hit has drawn, startServePhase can draw one that is
\* strictly greater in magnitude.
C25_ServeErrorWider ==
  [][PlayerHitStep
       => \E rnd \in TickRnds :
            Abs(startServePhase(engine', rnd).aiErrorOffset)
              > Abs(engine'.aiErrorOffset)]_vars

\* the opponent's paddle hits the ball in the tick that this frame drives
AIHitsIn(g, lm, rnd) ==
  LET g1 == AtPhysics(g, lm, rnd)
  IN  g1.gameState = PLAYING /\ hitsAI(ballMove(g1.ball), g1.paddleAIX)

\* the player's paddle hits the ball in the tick that this frame drives
PlayerHitsIn(g, lm, rnd) ==
  LET g1 == AtPhysics(g, lm, rnd)
  IN  /\ g1.gameState = PLAYING
      /\ ~hitsAI(ballMove(g1.ball), g1.paddleAIX)
      /\ hitsPlayer(ballMove(g1.ball), g1.paddlePlayerX)

\* C26: a paddle hit puts the ball outside the band of that paddle with a
\* vertical velocity that points away from it, so that the same paddle
\* hits the ball neither a second time in the same tick nor in the tick
\* that follows, whatever the frame of that tick.
C26_NoRepeatedHit ==
  variant = "engine" =>
    \A lm \in Frames, rnd \in TickRnds :
      LET after == update(engine, lm, rnd)
      IN  /\ AIHitsIn(engine, lm, rnd) =>
               /\ after.ball.dy > 0
               /\ after.ball.y - BALL_RADIUS >= WALL_OFFSET + PADDLE_HEIGHT
               /\ ~hitsAI(after.ball, after.paddleAIX)
               /\ \A lm2 \in Frames, rnd2 \in TickRnds :
                    ~AIHitsIn(after, lm2, rnd2)
          /\ PlayerHitsIn(engine, lm, rnd) =>
               /\ after.ball.dy < 0
               /\ after.ball.y + BALL_RADIUS
                    <= CANVAS_HEIGHT - WALL_OFFSET - PADDLE_HEIGHT
               /\ ~hitsPlayer(after.ball, after.paddlePlayerX)
               /\ \A lm2 \in Frames, rnd2 \in TickRnds :
                    ~PlayerHitsIn(after, lm2, rnd2)

\* the opponent's paddle has just returned the ball
C26_Witness ==
  /\ variant = "engine"
  /\ ticks > 0
  /\ engine.gameState = PLAYING
  /\ engine.ball.dy > 0
  /\ engine.ball.y = WALL_OFFSET + PADDLE_HEIGHT + BALL_RADIUS + 1 * PX

\* C31: a tick of GameEngine credits at most one point: whatever the
\* frame, the sum of the scores after update is at most one more than
\* before, and a tick that credits a point ends in SERVING or GAME_OVER, so
\* that the next tick does not find the same ball beyond the end.
C31_OnePointPerTick ==
  variant = "engine" =>
    \A lm \in Frames, rnd \in TickRnds :
      LET after == update(engine, lm, rnd)
      IN  /\ Total(after.scores) <= Total(engine.scores) + 1
          /\ Total(after.scores) = Total(engine.scores) + 1
               => after.gameState \in {SERVING, GAME_OVER}

\* a tick has credited the third point of a match and the next serve is
\* being prepared
C31_Witness ==
  /\ variant = "engine"
  /\ ticks > 0
  /\ engine.gameState = SERVING
  /\ Total(engine.scores) = 3
  /\ engine.serveInfo.countdown = 3
  /\ engine.intervals # <<>>

\* C35: in active play a ball whose edge lies beyond a side wall at the
\* end of a tick moves back toward the field: beyond the left wall dx is
\* positive and beyond the right wall dx is negative, also when the tick
\* that reflected the ball at the wall is one in which a paddle hit it.
C35_BackFromTheWall ==
  (variant = "engine" /\ engine.gameState = PLAYING) =>
    /\ engine.ball.x - BALL_RADIUS < 0 => engine.ball.dx > 0
    /\ engine.ball.x + BALL_RADIUS > CANVAS_WIDTH => engine.ball.dx < 0

----------------------------------------------------------------------------
(* Claims about the countdown of the serve and the teardown, checked under *)
(* SpecCountdown                                                           *)

\* a callback of an interval has run
IntervalStep == ticks' = ticks /\ engine'.intervals # engine.intervals

\* C21: after the cleanup of a GameEngine whose loop had been started
\* nothing fires any more: no tick and no callback of an interval changes
\* anything.
C21_TeardownCancelsAll ==
  [][(~engine.mounted /\ engine.gameState # INITIALIZING)
       => engine' = engine]_vars

\* C22: during a serve phase the countdown shows 3, 2, 1, 0 in this order:
\* in SERVING it lies in 0..3 and a step that stays in SERVING leaves it or
\* lowers it by one; while the phase is PLAYING no callback of an interval
\* writes a countdown, the display stays empty.
C22_CountdownInOrder ==
  /\ [](engine.gameState = SERVING => engine.serveInfo.countdown \in 0..3)
  /\ [][(engine.gameState = SERVING /\ engine'.gameState = SERVING)
          => engine'.serveInfo.countdown
               \in {engine.serveInfo.countdown, engine.serveInfo.countdown - 1}]_vars
  /\ [][(engine.gameState = PLAYING /\ IntervalStep)
          => engine'.serveInfo.countdown = NoCountdown]_vars

\* C23: the callback of an interval writes the countdown of the display and
\* nothing else of the game: the ball, the scores, the phase, the server,
\* the serve counter, both paddles and whatever else the engine holds are
\* after the callback what they were before it, whenever it runs between
\* the ticks.
C23_CallbackWritesCountdownOnly ==
  /\ [](\A i \in 1..Len(engine.intervals) :
          LET after == intervalCallback(engine, i)
          IN  /\ after.ball = engine.ball
              /\ after.scores = engine.scores
              /\ after.gameState = engine.gameState
              /\ after.serveTurn = engine.serveTurn
              /\ after.servesCount = engine.servesCount
              /\ after.paddlePlayerX = engine.paddlePlayerX
              /\ after.paddleAIX = engine.paddleAIX
              /\ after.serveInfo.turn = engine.serveInfo.turn)
  /\ [][IntervalStep
          => engine' = [engine EXCEPT
                          !.intervals = engine'.intervals,
                          !.serveInfo.countdown = engine'.serveInfo.countdown]]_vars

\* the interval of a serve has run to its end while the ball was in flight
C23_Witness ==
  /\ engine.gameState = PLAYING
  /\ ticks > 0
  /\ engine.intervals = <<>>
  /\ engine.serveInfo.countdown = 0
  /\ engine.ball.dy # 0

----------------------------------------------------------------------------
(* Claims about the frames of GameCanvas, checked under Spec *)

\* C32: in GameCanvas the ball that ends the match is credited once: from
\* the moment handleScoring has requested GAME_OVER the scores of
\* GameCanvas stay as they are until the reset effect runs, whichever
\* frames run before GameCanvas has been rendered again.
C32_WinningPointOnce ==
  [][(variant = "canvas" /\ canvas.gameState = GAME_OVER
        /\ canvas'.resetSeen = canvas.resetSeen)
       => canvas'.scores = canvas.scores]_vars

----------------------------------------------------------------------------
(* Claims about the end of a long rally, checked under SpecRally *)

Overlaps(x, paddleX) == Abs(x - paddleX) < PADDLE_WIDTH \div 2 + BALL_RADIUS

\* C37: in a tick of active play that takes the lower edge of the ball from
\* above the face of the player's paddle to below it (the upper edge from
\* below the face of the opponent's paddle to above it), the ball over the
\* paddle before and after the move, the ball is returned: the tick ends in
\* PLAYING with the ball flying away from that paddle
C37_ReturnedAtEverySpeed ==
  (variant = "engine" /\ engine.gameState = PLAYING) =>
    \A lm \in Frames \cup {Aim(engine)}, rnd \in TickRnds :
      LET g1 == aiLogic(processInput(engine, lm, rnd))
          b == g1.ball
          b1 == ballMove(b)
          after == update(engine, lm, rnd)
          playerFace == CANVAS_HEIGHT - WALL_OFFSET - PADDLE_HEIGHT
          aiFace == WALL_OFFSET + PADDLE_HEIGHT
      IN  /\ ( /\ b.dy > 0
               /\ b.y + BALL_RADIUS <= playerFace
               /\ b1.y + BALL_RADIUS > playerFace
               /\ Overlaps(b.x, g1.paddlePlayerX)
               /\ Overlaps(b1.x, g1.paddlePlayerX) ) =>
               after.gameState = PLAYING /\ after.ball.dy < 0
          /\ ( /\ b.dy < 0
               /\ b.y - BALL_RADIUS >= aiFace
               /\ b1.y - BALL_RADIUS < aiFace
               /\ Overlaps(b.x, g1.paddleAIX)
               /\ Overlaps(b1.x, g1.paddleAIX) ) =>
               after.gameState = PLAYING /\ after.ball.dy > 0

----------------------------------------------------------------------------
(* Claims about mount and unmount, checked under SpecTeardown *)

\* C33: no loop runs after teardown, at whatever moment of the
\* asynchronous start the cleanup has run: once GameEngine is unmounted no
\* gameLoop runs and none is requested, and once WebcamInput is unmounted
\* no pass of processVideo runs and none is requested.
C33_NoLoopAfterTeardown ==
  [][/\ (variant = "engine" /\ ~engine.mounted)
          => (ticks' = ticks /\ ~engine'.requestRef)
     /\ (variant = "canvas" /\ ~vision.mounted)
          => (ticks' = ticks /\ ~vision'.frameId
                /\ vision'.lastVideoTime = vision.lastVideoTime)]_vars

----------------------------------------------------------------------------
(* Claims about the serve in front of the camera, checked under SpecServe *)

\* C34: a serve of the player is launched only in a tick for which a hand
\* with the index finger bent is detected: in GameEngine the tick that
\* launches it has run a detection on the camera's current frame and that
\* frame shows a hand with the index bent; in Pong Motion a frame of
\* GameCanvas that launches it after processVideo has processed the
\* camera's current frame runs while that frame shows a hand classified
\* INDEX_BENT, not one that has left the image.
C34_ServeNeedsBentIndex ==
  [][/\ (variant = "engine" /\ engine.gameState = SERVING
           /\ engine.serveTurn = PLAYER /\ engine'.gameState = PLAYING)
          => /\ vision.currentTime # vision.lastVideoTime
             /\ vision.picture.hand
             /\ isIndexBent(vision.picture.landmarks)
     /\ (variant = "canvas" /\ canvas.isServing /\ canvas.server = "player"
           /\ ~canvas'.isServing /\ vision.currentTime = vision.lastVideoTime)
          => /\ vision.picture.hand
             /\ detectGesture(vision.picture.landmarks) = INDEX_BENT]_vars

----------------------------------------------------------------------------
(* Claims about the two games side by side, checked under SpecLockstep *)

\* C28: started at 0-0 with the player serving and given the same winner
\* of every point, GameEngine and GameCanvas show the same scores after
\* every point, decide at the same point that the match is over and, as
\* long as it is not, give the next serve to the same side; the serve
\* counters of the two need not agree.
C28_SameMatch ==
  variant = "lockstep" =>
    /\ engine.scores = canvas.scores
    /\ engine.gameState = GAME_OVER <=> canvas.gameState = GAME_OVER
    /\ engine.gameState # GAME_OVER =>
         /\ engine.gameState = SERVING
         /\ canvas.gameState = PLAYING /\ canvas.isServing
         /\ GcSide(engine.serveTurn) = canvas.server

\* in the deuce the serve counters differ and the server is the same
C28_Witness ==
  /\ variant = "lockstep"
  /\ engine.scores = [player |-> 12, ai |-> 12]
  /\ engine.servesCount > canvas.servesCount
  /\ engine.serveTurn = PLAYER
  /\ canvas.server = "player"

====
